---- MODULE Spec2Model ----
(***************************************************************************)
(* Record reconciler and aggregator of the client tools:                   *)
(*   src/clients_summary.py  (is_client_record, extract_*, summarize)      *)
(*   src/clients_menu.py     (is_client_record, extract_field,             *)
(*                            view_all_clients)                            *)
(*   src/src/database.py     (ClientDatabase: list/search/load/update)     *)
(* The folder of *.json files is the state; every call is one action that  *)
(* leaves its return value (or the exception it raised) in `result`.       *)
(***************************************************************************)
EXTENDS Integers, Sequences, FiniteSets, TLC

VARIABLES folder, result

vars == <<folder, result>>

(***************************************************************************)
(* Bounds of the model.                                                    *)
(***************************************************************************)
\* files the database specification (Spec) keeps in the folder at most
MaxDbFiles == 2
\* files the summary specification (SpecSummary) keeps in the folder at most
MaxFiles == 4

(***************************************************************************)
(* JSON values.  One record shape for every value so that any two values   *)
(* can be compared: t is the Python type, s/n/l the payload.               *)
(***************************************************************************)
Null == [t |-> "null", s |-> "", n |-> 0, l |-> <<>>]
Str(x) == [t |-> "str", s |-> x, n |-> 0, l |-> <<>>]
Num(x) == [t |-> "num", s |-> "", n |-> x, l |-> <<>>]
List(x) == [t |-> "list", s |-> "", n |-> 0, l |-> x]
\* a Python set: a value json.dump cannot serialise
PySet == [t |-> "set", s |-> "", n |-> 0, l |-> <<>>]

\* bool(v) of Python
Truthy(v) ==
    CASE v.t = "str" -> v.s # ""
      [] v.t = "num" -> v.n # 0
      [] v.t = "list" -> v.l # <<>>
      [] v.t = "set" -> TRUE
      [] OTHER -> FALSE

\* str.strip() on the strings of the model
Strip(x) ==
    CASE x = " Retail " -> "Retail"
      [] x = " Growth " -> "Growth"
      [] x = "  " -> ""
      [] OTHER -> x

\* float(v): [ok |-> FALSE] stands for the exception float() raises
NoFloat == [ok |-> FALSE, f |-> 0]
ToFloat(v) ==
    CASE v.t = "num" -> [ok |-> TRUE, f |-> v.n]
      [] v.t = "str" /\ v.s = "10" -> [ok |-> TRUE, f |-> 10]
      [] v.t = "str" /\ v.s = " 20 " -> [ok |-> TRUE, f |-> 20]
      [] OTHER -> NoFloat

(***************************************************************************)
(* A parsed document: root is the Python type of the JSON root, doc the    *)
(* mapping (a function whose DOMAIN is the set of keys) when root = "dict". *)
(***************************************************************************)
NoKeys == [k \in {} |-> Null]
Dict(d) == [root |-> "dict", doc |-> d]
NonDict(r) == [root |-> r, doc |-> NoKeys]

\* k in data
Has(d, k) == k \in DOMAIN d
\* data.get(k)
Get(d, k) == IF k \in DOMAIN d THEN d[k] ELSE Null

(***************************************************************************)
(* src/clients_summary.py                                                  *)
(***************************************************************************)
\* faulty variant: the second rule accepts a business_name that is merely a key
is_client_record_KeyOnly(data) ==
    /\ data.root = "dict"
    /\ \/ Truthy(Get(data.doc, "name")) /\ Truthy(Get(data.doc, "business_name"))
       \/ /\ Has(data.doc, "business_name")
          /\ Has(data.doc, "employees_count") \/ Has(data.doc, "industry")

is_client_record(data) ==
    /\ data.root = "dict"
    /\ \/ Truthy(Get(data.doc, "name")) /\ Truthy(Get(data.doc, "business_name"))
       \/ /\ Truthy(Get(data.doc, "business_name"))
          /\ Has(data.doc, "employees_count") \/ Has(data.doc, "industry")

\* the result is a sequence of at most one string: <<>> is None
extract_industry(d) ==
    LET ind == Get(d, "industry")
    IN  IF ind.t = "str" /\ Strip(ind.s) # "" THEN <<Strip(ind.s)>> ELSE <<>>

\* faulty variant: a count that does not parse is taken as zero instead of None
extract_employees_Zero(d) ==
    IF Has(d, "employees_count")
    THEN [ok |-> TRUE, f |-> ToFloat(d["employees_count"]).f]
    ELSE IF Has(d, "employees") THEN [ok |-> TRUE, f |-> ToFloat(d["employees"]).f]
    ELSE NoFloat

\* float(data["employees_count"]), else float(data["employees"]); None when
\* the first of the two keys that is present does not convert
extract_employees(d) ==
    IF Has(d, "employees_count") THEN ToFloat(d["employees_count"])
    ELSE IF Has(d, "employees") THEN ToFloat(d["employees"])
    ELSE NoFloat

RECURSIVE StrippedStrings(_)
\* [c.strip() for c in ch if isinstance(c, str) and c.strip()]
StrippedStrings(l) ==
    IF l = <<>> THEN <<>>
    ELSE LET c == Head(l)
         IN  (IF c.t = "str" /\ Strip(c.s) # "" THEN <<Strip(c.s)>> ELSE <<>>)
             \o StrippedStrings(Tail(l))

extract_challenges(d) ==
    LET mc == Get(d, "main_challenge")
        ch == Get(d, "challenges")
    IN  (IF mc.t = "str" /\ Strip(mc.s) # "" THEN <<Strip(mc.s)>> ELSE <<>>)
        \o (IF ch.t = "list" THEN StrippedStrings(ch.l) ELSE <<>>)

(***************************************************************************)
(* Files.  A file is [name, content]; content.kind is "json" (the text     *)
(* parses, content.data is what json.load returns), "malformed" (the text  *)
(* is no JSON), "truncated" (a write stopped part way: the text is a       *)
(* prefix of a JSON document, or empty) or "unreadable" (open() raises an  *)
(* OSError other than FileNotFoundError: no permission, a directory).      *)
(***************************************************************************)
Json(data) == [kind |-> "json", data |-> data]
Malformed == [kind |-> "malformed", data |-> NonDict("null")]
Truncated == [kind |-> "truncated", data |-> NonDict("null")]
Unreadable == [kind |-> "unreadable", data |-> NonDict("null")]

\* json.loads(fp.read_text(...)) under "except Exception: continue"
Parses(content) == content.kind = "json"

\* faulty variant: challenges are returned as collected, duplicates included
Dedup_Keep(s) == s

\* the order-preserving deduplication of clients_summary.summarize
\* (seen set, append on first sight)
Dedup(s) ==
    LET F[i \in 0..Len(s)] ==
            IF i = 0 THEN <<>>
            ELSE IF \E j \in 1..(i - 1) : s[j] = s[i] THEN F[i - 1]
            ELSE Append(F[i - 1], s[i])
    IN  F[Len(s)]

\* the keys of Counter(s), in insertion order: each value at its first
\* occurrence
CounterKeys(s) ==
    LET F[i \in 0..Len(s)] ==
            IF i = 0 THEN <<>>
            ELSE IF \E j \in 1..(i - 1) : s[j] = s[i] THEN F[i - 1]
            ELSE Append(F[i - 1], s[i])
    IN  F[Len(s)]

\* Counter(s)[x]
Occurrences(s, x) == Cardinality({i \in 1..Len(s) : s[i] = x})

\* faulty variant: max() replaces its candidate on an equal count too, so of the
\* values with the highest count the last key wins
most_common_Last(s) ==
    LET keys == CounterKeys(s)
        F[i \in 1..Len(keys)] ==
            IF i = 1 THEN 1
            ELSE IF Occurrences(s, keys[i]) >= Occurrences(s, keys[F[i - 1]])
                 THEN i ELSE F[i - 1]
    IN  keys[F[Len(keys)]]

\* Counter(industries).most_common(1)[0][0], for a non-empty s: max() over
\* the Counter's items in insertion order, by count; max() replaces its
\* candidate only on a strictly greater count
most_common(s) ==
    LET keys == CounterKeys(s)
        F[i \in 1..Len(keys)] ==
            IF i = 1 THEN 1
            ELSE IF Occurrences(s, keys[i]) > Occurrences(s, keys[F[i - 1]])
                 THEN i ELSE F[i - 1]
    IN  keys[F[Len(keys)]]

SumSeq(s) ==
    LET F[i \in 0..Len(s)] == IF i = 0 THEN 0 ELSE F[i - 1] + s[i]
    IN  F[Len(s)]

\* a float or None: the mean is kept as the exact fraction sum / n
NoAverage == [some |-> FALSE, sum |-> 0, n |-> 0]

\* faulty variant: a record whose employee count fails to parse is dropped whole
summarize_records_RowDrop(files) ==
    LET Keep(c) == Parses(c) /\ is_client_record(c.data)
                   /\ extract_employees(c.data.doc).ok
        kept == SelectSeq(files, Keep)
    IN  [i \in 1..Len(kept) |-> kept[i].data.doc]

\* lines 63-69 of summarize: the documents that parse and classify, in
\* glob order
summarize_records(files) ==
    LET Keep(c) == Parses(c) /\ is_client_record(c.data)
        kept == SelectSeq(files, Keep)
    IN  [i \in 1..Len(kept) |-> kept[i].data.doc]

\* summarize(folder) on the files of the folder in glob order; it has no
\* path on which it raises
summarize(files) ==
    LET recs == summarize_records(files)
        industries ==
            LET F[i \in 0..Len(recs)] ==
                    IF i = 0 THEN <<>> ELSE F[i - 1] \o extract_industry(recs[i])
            IN  F[Len(recs)]
        employee_counts ==
            LET F[i \in 0..Len(recs)] ==
                    IF i = 0 THEN <<>>
                    ELSE LET emp == extract_employees(recs[i])
                         IN  IF emp.ok THEN Append(F[i - 1], emp.f) ELSE F[i - 1]
            IN  F[Len(recs)]
        challenges ==
            LET F[i \in 0..Len(recs)] ==
                    IF i = 0 THEN <<>> ELSE F[i - 1] \o extract_challenges(recs[i])
            IN  F[Len(recs)]
    IN  [total |-> Len(recs),
         industry |-> IF industries # <<>> THEN <<most_common(industries)>> ELSE <<>>,
         avg |-> IF employee_counts # <<>>
                 THEN [some |-> TRUE, sum |-> SumSeq(employee_counts),
                       n |-> Len(employee_counts)]
                 ELSE NoAverage,
         challenges |-> Dedup(challenges)]

(***************************************************************************)
(* The folder: the files of the directory in the order the directory      *)
(* enumerates them (Path.glob, os.listdir), names distinct.                *)
(***************************************************************************)
FileNames ==
    <<"acme-2025-11-16.json", "acme.json", "byte-2024-01-02.json",
      "cart-2025-11-16.json", "dot.json", "eve.json",
      "fay-0001-01-01.json", "fay.json">>

Names(fs) == {fs[i].name : i \in 1..Len(fs)}
Contents(fs) == [i \in 1..Len(fs) |-> fs[i].content]

NoResult == [op |-> "none"]

Init ==
    /\ folder = <<>>
    /\ result = NoResult

(***************************************************************************)
(* Documents the intake tools leave in the folder of the summary           *)
(* specification.                                                          *)
(***************************************************************************)
DocAcme ==
    [name |-> Str("Ann"), business_name |-> Str("Acme Corp"), industry |-> Str("Retail"),
     employees_count |-> Num(10), main_challenge |-> Str("Cash"),
     challenges |-> List(<<Str("Hiring"), Str("Cash")>>)]
DocByte ==
    [business_name |-> Str("Byte"), industry |-> Str("Tech"),
     employees_count |-> Str("bad"),
     challenges |-> List(<<Str("Hiring"), Str(" Growth "), Num(7), Str("  ")>>)]
DocCart ==
    [name |-> Str("Cy"), business_name |-> Str("Cart"), industry |-> Str(" Retail "),
     employees_count |-> Num(20), main_challenge |-> Str("Growth")]
DocDot ==
    [business_name |-> Str("Dot"), industry |-> Str("Tech"), employees |-> Num(-5),
     challenges |-> List(<<Str("Taxes")>>)]
\* no business_name: not a client record
DocEve ==
    [name |-> Str("Eve"), industry |-> Str("Tech"), employees_count |-> Num(40),
     main_challenge |-> Str("Audit")]
\* a client record none of whose sub-fields can be extracted
DocFun ==
    [name |-> Str("Flo"), business_name |-> Str("Fun"), industry |-> Null,
     employees_count |-> Null, challenges |-> Str("Cash")]

SummaryContents ==
    {Json(Dict(d)) : d \in {DocAcme, DocByte, DocCart, DocDot, DocEve, DocFun}}
        \cup {Malformed}

\* an intake tool (clients_menu.save_client, client_intake.main) or a hand
\* edit leaves one more file in the folder.  summarize never reads a file's
\* name, so the names are handed out in a fixed order; the contents arise in
\* every order.
IntakeSave ==
    /\ Len(folder) < MaxFiles
    /\ \E c \in SummaryContents :
          folder' = Append(folder, [name |-> FileNames[Len(folder) + 1], content |-> c])
    /\ result' = [op |-> "save"]

\* clients_summary.main: summarize(Path.cwd())
Summarize ==
    /\ result' = [op |-> "summarize", value |-> summarize(Contents(folder))]
    /\ UNCHANGED folder

NextSummary == IntakeSave \/ Summarize

SpecSummary == Init /\ [][NextSummary]_vars

(***************************************************************************)
(* Claims about summarize (SpecSummary).  The folder is unchanged by       *)
(* Summarize and every write replaces `result`, so a summarize result is   *)
(* always the summary of the folder of the same state.                     *)
(***************************************************************************)
Summarized == result.op = "summarize"

\* a stored file that parses to a mapping which the classification rule of
\* the data model accepts, spelled out on the document's keys
Classifiable(c) ==
    /\ c.kind = "json"
    /\ c.data.root = "dict"
    /\ LET d == c.data.doc
           filled(k) == k \in DOMAIN d /\ Truthy(d[k])
       IN  \/ filled("name") /\ filled("business_name")
           \/ /\ filled("business_name")
              /\ "employees_count" \in DOMAIN d \/ "industry" \in DOMAIN d

\* the classified documents of the folder, in iteration order
ClientDocs ==
    LET kept == SelectSeq(Contents(folder), Classifiable)
    IN  [i \in 1..Len(kept) |-> kept[i].data.doc]

\* the industries of the classified documents that have one, in order
ClientIndustries ==
    LET with == SelectSeq(ClientDocs, LAMBDA d : extract_industry(d) # <<>>)
    IN  [i \in 1..Len(with) |-> extract_industry(with[i])[1]]

\* the challenges of the classified documents, in record order and then in
\* the order within the record
ClientChallenges ==
    LET F[i \in 0..Len(ClientDocs)] ==
            IF i = 0 THEN <<>> ELSE F[i - 1] \o extract_challenges(ClientDocs[i])
    IN  F[Len(ClientDocs)]

FirstIndex(s, x) == CHOOSE i \in 1..Len(s) : s[i] = x /\ \A j \in 1..(i - 1) : s[j] # x
Elems(s) == {s[i] : i \in 1..Len(s)}
NoDuplicates(s) == \A i, j \in 1..Len(s) : s[i] = s[j] => i = j

\* C6: totalCount is the number of parseable stored documents that satisfy
\* the classification predicate; documents failing it are never counted, and
\* classified documents count even when no sub-field can be extracted.
C6_TotalCount ==
    Summarized =>
        result.value.total
            = Cardinality({i \in 1..Len(folder) : Classifiable(folder[i].content)})

\* a summary of a folder holding an unclassified document, a malformed file
\* and a client record without any extractable sub-field
C6_Witness ==
    /\ Summarized
    /\ result.value.total = 2
    /\ \E i \in 1..Len(folder) : folder[i].content = Json(Dict(DocEve))
    /\ \E i \in 1..Len(folder) : folder[i].content = Json(Dict(DocFun))
    /\ \E i \in 1..Len(folder) : folder[i].content = Malformed

\* the highest occurrence count among the industries
MaxOccurrences(s) ==
    CHOOSE m \in 0..Len(s) :
        /\ \A i \in 1..Len(s) : Occurrences(s, s[i]) <= m
        /\ s # <<>> => \E i \in 1..Len(s) : Occurrences(s, s[i]) = m

\* the value whose running count reaches the final maximum first
FirstToReachMax(s) ==
    LET i == CHOOSE k \in 1..Len(s) :
                /\ Occurrences(SubSeq(s, 1, k), s[k]) = MaxOccurrences(s)
                /\ \A j \in 1..(k - 1) :
                      Occurrences(SubSeq(s, 1, j), s[j]) < MaxOccurrences(s)
    IN  s[i]

\* C7 as stated: mostCommonIndustry has the highest count, ties go to the
\* value whose running count reaches the maximum first in iteration order,
\* and it is absent only when no record has an industry.
C7_FirstToReachMax ==
    Summarized =>
        IF ClientIndustries = <<>> THEN result.value.industry = <<>>
        ELSE result.value.industry = <<FirstToReachMax(ClientIndustries)>>

\* C7 as amended: mostCommonIndustry has the highest count, ties go to the
\* tied value that occurs first in iteration order, and it is absent exactly
\* when no classified record has an industry.
C7_FirstOccurrence ==
    Summarized =>
        IF ClientIndustries = <<>> THEN result.value.industry = <<>>
        ELSE /\ Len(result.value.industry) = 1
             /\ LET s == ClientIndustries
                    v == result.value.industry[1]
                IN  /\ v \in Elems(s)
                    /\ Occurrences(s, v) = MaxOccurrences(s)
                    /\ \A w \in Elems(s) \ {v} :
                          Occurrences(s, w) = MaxOccurrences(s)
                              => FirstIndex(s, v) < FirstIndex(s, w)

\* a summary of industries [Retail, Tech, Tech, Retail]: Retail and Tech tie,
\* Tech reaches two first, Retail occurs first and is returned
C7_Witness ==
    /\ Summarized
    /\ ClientIndustries = <<"Retail", "Tech", "Tech", "Retail">>
    /\ result.value.industry = <<"Retail">>

\* the employee counts that parse, of the classified documents, restricted
\* to those that satisfy Test
ClientEmployees(Test(_)) ==
    LET parsed == SelectSeq(ClientDocs,
                            LAMBDA d : extract_employees(d).ok
                                       /\ Test(extract_employees(d).f))
    IN  [i \in 1..Len(parsed) |-> extract_employees(parsed[i]).f]

NonNegative(x) == x >= 0
AnyNumber(x) == TRUE

\* the result's average is the mean of the sequence s (absent iff s is empty)
AverageIs(s) ==
    /\ result.value.avg.some <=> s # <<>>
    /\ s # <<>> => result.value.avg.sum * Len(s) = SumSeq(s) * result.value.avg.n

\* C8: averageEmployeeCount is the mean over exactly the classified records
\* whose employee count parses to a non-negative number, and is absent iff no
\* record contributes.
C8_MeanOfNonNegative == Summarized => AverageIs(ClientEmployees(NonNegative))

\* C9: aggregates are computed per field: a classified record whose employee
\* count does not parse is left out of the average only; it counts towards
\* totalCount, and its industry and challenges contribute to
\* mostCommonIndustry and allChallenges ([10, "bad", 20]: average 15, total 3).
C9_PerFieldAggregates ==
    Summarized =>
        /\ AverageIs(ClientEmployees(AnyNumber))
        /\ result.value.total = Len(ClientDocs)
        /\ \A i \in 1..Len(ClientDocs) :
              LET d == ClientDocs[i]
              IN  /\ Elems(extract_challenges(d)) \subseteq Elems(result.value.challenges)
                  /\ extract_industry(d) # <<>> =>
                        /\ result.value.industry # <<>>
                        /\ Occurrences(ClientIndustries, extract_industry(d)[1])
                              <= Occurrences(ClientIndustries, result.value.industry[1])
        /\ Contents(folder) = <<Json(Dict(DocAcme)), Json(Dict(DocByte)), Json(Dict(DocCart))>>
              => /\ result.value.avg.some
                 /\ result.value.avg.sum = 15 * result.value.avg.n
                 /\ result.value.total = 3

\* the summary of employee values [10, "bad", 20], where the record with
\* "bad" is the only one with industry Tech and challenge Hiring
C9_Witness ==
    /\ Summarized
    /\ Contents(folder) = <<Json(Dict(DocAcme)), Json(Dict(DocByte)), Json(Dict(DocCart))>>
    /\ ~extract_employees(DocByte).ok
    /\ result.value.total = 3
    /\ "Hiring" \in Elems(result.value.challenges)

\* the folder after string c is appended to the challenges list of the
\* document stored in file i (a document without such a list gets one)
WithChallengeAppended(fs, i, c) ==
    LET d == fs[i].content.data.doc
        old == IF "challenges" \in DOMAIN d /\ d["challenges"].t = "list"
               THEN d["challenges"].l ELSE <<>>
        new == [k \in DOMAIN d \cup {"challenges"} |->
                   IF k = "challenges" THEN List(Append(old, Str(c))) ELSE d[k]]
    IN  [fs EXCEPT ![i].content = Json(Dict(new))]

\* the files that hold a document (a JSON mapping)
DocumentFiles == {i \in 1..Len(folder) :
                     folder[i].content.kind = "json"
                     /\ folder[i].content.data.root = "dict"}

\* allChallenges has no duplicate and lists every distinct challenge of the
\* classified records in order of first occurrence
DedupInFirstOccurrenceOrder ==
    LET out == result.value.challenges
    IN  /\ NoDuplicates(out)
        /\ Elems(out) = Elems(ClientChallenges)
        /\ \A a, b \in 1..Len(out) :
              a < b => FirstIndex(ClientChallenges, out[a])
                          < FirstIndex(ClientChallenges, out[b])

\* string c occurs among the challenges of the classified documents stored
\* in files 1..i
OccursUpTo(i, c) ==
    \E j \in 1..i :
        /\ Classifiable(folder[j].content)
        /\ c \in Elems(extract_challenges(folder[j].content.data.doc))

\* C10 as stated: allChallenges is the duplicate-free list of the challenges
\* in order of first occurrence, and appending to any record a challenge
\* string that already occurs changes neither its length nor its order.
C10_AppendKeepsOrder ==
    Summarized =>
        /\ DedupInFirstOccurrenceOrder
        /\ \A i \in DocumentFiles : \A c \in Elems(result.value.challenges) :
              summarize(Contents(WithChallengeAppended(folder, i, c))).challenges
                  = result.value.challenges

\* C10 as amended: allChallenges is the duplicate-free list of the challenges
\* in order of first occurrence; appending to any record a challenge string
\* that already occurs does not change its length, and does not change its
\* order when the string already occurs in that record or in a record
\* earlier in iteration order.
C10_AppendKeepsLength ==
    Summarized =>
        /\ DedupInFirstOccurrenceOrder
        /\ \A i \in DocumentFiles : \A c \in Elems(result.value.challenges) :
              LET after == summarize(Contents(WithChallengeAppended(folder, i, c))).challenges
              IN  /\ Len(after) = Len(result.value.challenges)
                  /\ Elems(after) = Elems(result.value.challenges)
                  /\ OccursUpTo(i, c) => after = result.value.challenges

\* a summary where a challenge occurs in two records and within one record
\* twice (Cash in Acme), so that deduplication has acted, and where a
\* challenge of a later record can be appended to an earlier one
C10_Witness ==
    /\ Summarized
    /\ Len(ClientChallenges) > Len(result.value.challenges)
    /\ Len(result.value.challenges) >= 3
    /\ \E i \in DocumentFiles : \E c \in Elems(result.value.challenges) :
          /\ Classifiable(folder[i].content)
          /\ ~OccursUpTo(i, c)

(***************************************************************************)
(* src/clients_menu.py: its own copy of the classifier.                    *)
(***************************************************************************)
menu_is_client_record(data) ==
    /\ data.root = "dict"
    /\ \/ Truthy(Get(data.doc, "name")) /\ Truthy(Get(data.doc, "business_name"))
       \/ /\ Truthy(Get(data.doc, "business_name"))
          /\ Has(data.doc, "employees_count") \/ Has(data.doc, "industry")

(***************************************************************************)
(* The classifier as a function of the raw document (SpecClassify): the    *)
(* four keys it reads are each missing, null, empty/zero or filled, and    *)
(* the root may be no mapping at all.                                      *)
(***************************************************************************)
Missing == [t |-> "missing", s |-> "", n |-> 0, l |-> <<>>]

ClassifyDocs ==
    LET choices == [name : {Missing, Null, Str(""), Num(0), Str("Ann")},
                    business_name : {Missing, Null, Str(""), Num(0), Str("Acme")},
                    employees_count : {Missing, Null, Num(0), Num(10)},
                    industry : {Missing, Null, Str(""), Str("Tech")}]
    IN  {[k \in {x \in DOMAIN a : a[x] # Missing} |-> a[k]] : a \in choices}

ClassifyInputs ==
    {Dict(d) : d \in ClassifyDocs} \cup {NonDict(r) : r \in {"list", "str", "num", "null"}}

\* is_client_record(data), of clients_summary and of clients_menu
Classify ==
    /\ \E data \in ClassifyInputs :
          result' = [op |-> "is_client_record", arg |-> data,
                     value |-> is_client_record(data),
                     menu_value |-> menu_is_client_record(data)]
    /\ UNCHANGED folder

NextClassify == Classify

SpecClassify == Init /\ [][NextClassify]_vars

Classified == result.op = "is_client_record"

KeyPresent(k) == result.arg.root = "dict" /\ k \in DOMAIN result.arg.doc
\* present with a value that is not null, empty or zero (a true value)
KeyFilled(k) == KeyPresent(k) /\ Truthy(result.arg.doc[k])

\* C5 as stated: is_client_record is true iff (name and business_name are
\* both present and non-empty) or (business_name is present and at least one
\* of employees_count or industry is present), and false for a root that is
\* not a mapping.
C5_BusinessNamePresent ==
    Classified =>
        /\ result.value <=>
              \/ KeyFilled("name") /\ KeyFilled("business_name")
              \/ /\ KeyPresent("business_name")
                 /\ KeyPresent("employees_count") \/ KeyPresent("industry")
        /\ result.menu_value = result.value

\* C5 as amended: is_client_record is true iff (name and business_name are
\* both present and non-empty) or (business_name is present and non-empty
\* and at least one of the keys employees_count or industry is present,
\* whatever its value), and false for a root that is not a mapping.
C5_BusinessNameFilled ==
    Classified =>
        /\ result.value <=>
              \/ KeyFilled("name") /\ KeyFilled("business_name")
              \/ /\ KeyFilled("business_name")
                 /\ KeyPresent("employees_count") \/ KeyPresent("industry")
        /\ result.menu_value = result.value
        /\ result.arg.root # "dict" => ~result.value

\* a document accepted by the second rule alone, on a key whose value is
\* null
C5_Witness ==
    /\ Classified
    /\ result.value
    /\ ~KeyPresent("name")
    /\ KeyFilled("business_name")
    /\ KeyPresent("employees_count") /\ result.arg.doc["employees_count"] = Null
    /\ ~KeyPresent("industry")

(***************************************************************************)
(* src/src/database.py: ClientRecord and ClientDatabase.                   *)
(***************************************************************************)
\* ClientRecord.date on the file names of the model, as the number YYYYMMDD;
\* 0 is None (no ".json" extension, a stem shorter than 11 characters, or
\* last 10 characters that strptime rejects)
record_date(filename) ==
    CASE filename = "acme-2025-11-16.json" -> 20251116
      [] filename = "byte-2024-01-02.json" -> 20240102
      [] filename = "cart-2025-11-16.json" -> 20251116
      [] filename = "fay-0001-01-01.json" -> 10101
      [] OTHER -> 0

\* the position of a file name in the lexicographic order of the names
\* (FileNames lists them in that order: "-" sorts before ".")
FileRank(filename) == CHOOSE i \in 1..Len(FileNames) : FileNames[i] = filename

\* datetime.min is 0001-01-01 00:00
DatetimeMin == 10101

\* r.date or datetime.min
DateOrMin(rec) ==
    IF record_date(rec.filename) = 0 THEN DatetimeMin ELSE record_date(rec.filename)

\* sort key of list_clients: (r.date or datetime.min, r.filename)
SortsBefore(a, b) ==
    \/ DateOrMin(a) < DateOrMin(b)
    \/ /\ DateOrMin(a) = DateOrMin(b)
       /\ FileRank(a.filename) < FileRank(b.filename)

\* sorted(records, key=...): the keys are distinct, so there is one order
Sorted(records) ==
    LET n == Len(records)
        place(i) == 1 + Cardinality({j \in 1..n : SortsBefore(records[j], records[i])})
    IN  [p \in 1..n |-> records[CHOOSE i \in 1..n : place(i) = p]]

\* _load_json on the file of that name: what it returns or raises
load_json(fs, filename) ==
    IF filename \notin Names(fs) THEN [raised |-> "FileNotFoundError", data |-> NonDict("null")]
    ELSE LET c == fs[CHOOSE i \in 1..Len(fs) : fs[i].name = filename].content
         IN  CASE c.kind = "json" -> [raised |-> "none", data |-> c.data]
               [] c.kind = "unreadable" -> [raised |-> "OSError", data |-> NonDict("null")]
               [] OTHER -> [raised |-> "ValueError", data |-> NonDict("null")]

\* list_clients: FileNotFoundError and ValueError are skipped, any other
\* exception of _load_json leaves the loop and the call
list_clients(fs) ==
    LET loads == [i \in 1..Len(fs) |-> load_json(fs, fs[i].name)]
        ok == SelectSeq([i \in 1..Len(fs) |-> i], LAMBDA i : loads[i].raised = "none")
    IN  IF \E i \in 1..Len(fs) : loads[i].raised = "OSError"
        THEN [raised |-> "OSError", value |-> <<>>]
        ELSE [raised |-> "none",
              value |-> Sorted([k \in 1..Len(ok) |->
                          [filename |-> fs[ok[k]].name, data |-> loads[ok[k]].data]])]

\* load_client
load_client(fs, filename) ==
    LET got == load_json(fs, filename)
    IN  [raised |-> got.raised, record |-> [filename |-> filename, data |-> got.data]]

\* dict.update(updates): a shallow overwrite
Merged(d, u) == [k \in DOMAIN d \cup DOMAIN u |-> IF k \in DOMAIN u THEN u[k] ELSE d[k]]

\* whether json.dump can serialise every value of the document
Serialisable(d) ==
    \A k \in DOMAIN d :
        /\ d[k].t # "set"
        /\ \A i \in 1..Len(d[k].l) : d[k].l[i].t # "set"

\* open(path, "w") and json.dump(record.data, f): the file is emptied, then
\* the chunks of the document are written until one cannot be serialised
written(d) == IF Serialisable(d) THEN Json(Dict(d)) ELSE Truncated

\* faulty variant: NotFound is met by creating the file from the updates
update_client_Create(fs, filename, updates) ==
    LET got == load_client(fs, filename)
        i == CHOOSE j \in 1..Len(fs) : fs[j].name = filename
    IN  IF got.raised = "FileNotFoundError"
        THEN [raised |-> got.raised, record |-> got.record,
              folder |-> Append(fs, [name |-> filename, content |-> written(updates)])]
        ELSE IF got.raised # "none" THEN [raised |-> got.raised, record |-> got.record, folder |-> fs]
        ELSE IF got.record.data.root # "dict"
        THEN [raised |-> "AttributeError", record |-> got.record, folder |-> fs]
        ELSE LET merged == Merged(got.record.data.doc, updates)
             IN  [raised |-> IF Serialisable(merged) THEN "none" ELSE "TypeError",
                  record |-> [filename |-> filename, data |-> Dict(merged)],
                  folder |-> [fs EXCEPT ![i].content = written(merged)]]

\* faulty variant: the updates replace the document instead of being merged into it
update_client_Replace(fs, filename, updates) ==
    LET got == load_client(fs, filename)
        i == CHOOSE j \in 1..Len(fs) : fs[j].name = filename
    IN  IF got.raised # "none" THEN [raised |-> got.raised, record |-> got.record, folder |-> fs]
        ELSE IF got.record.data.root # "dict"
        THEN [raised |-> "AttributeError", record |-> got.record, folder |-> fs]
        ELSE [raised |-> IF Serialisable(updates) THEN "none" ELSE "TypeError",
              record |-> [filename |-> filename, data |-> Dict(updates)],
              folder |-> [fs EXCEPT ![i].content = written(updates)]]

\* update_client: what it raises, the record it returns and the folder it
\* leaves
update_client(fs, filename, updates) ==
    LET got == load_client(fs, filename)
        i == CHOOSE j \in 1..Len(fs) : fs[j].name = filename
    IN  IF got.raised # "none" THEN [raised |-> got.raised, record |-> got.record, folder |-> fs]
        ELSE IF got.record.data.root # "dict"
        THEN [raised |-> "AttributeError", record |-> got.record, folder |-> fs]
        ELSE LET merged == Merged(got.record.data.doc, updates)
             IN  [raised |-> IF Serialisable(merged) THEN "none" ELSE "TypeError",
                  record |-> [filename |-> filename, data |-> Dict(merged)],
                  folder |-> [fs EXCEPT ![i].content = written(merged)]]

\* str.lower() on the strings of the model
Lower(x) ==
    CASE x = "Acme Corp" -> "acme corp"
      [] x = "Eden" -> "eden"
      [] x = "Ann" -> "ann"
      [] x = "Eve" -> "eve"
      [] x = "Retail" -> "retail"
      [] x = "Tech" -> "tech"
      [] x = "ACME" -> "acme"
      [] OTHER -> x

\* sub in x, for the search strings of the model
Contains(sub, x) ==
    \/ sub = ""
    \/ sub = x
    \/ sub = "acme" /\ x = "acme corp"

\* (v or "").lower(): the lowered string, or AttributeError for a true value
\* that is no string
LowerOrEmpty(v) ==
    IF ~Truthy(v) THEN [raised |-> "none", s |-> ""]
    ELSE IF v.t = "str" THEN [raised |-> "none", s |-> Lower(v.s)]
    ELSE [raised |-> "AttributeError", s |-> ""]

\* the date test of matches: record.date is there and is the day asked for
date_matches(record_date_value, date) ==
    ~(record_date_value = 0 \/ record_date_value # date)

\* matches(record) of search_clients: "yes", "no" or the exception raised.
\* record.business_name and record.industry call self.data.get, which a
\* root that is no dict does not have.
matches(rec, business_name, industry, date) ==
    LET bn == LowerOrEmpty(IF Truthy(Get(rec.data.doc, "business_name"))
                           THEN Get(rec.data.doc, "business_name")
                           ELSE Get(rec.data.doc, "name"))
        ind == LowerOrEmpty(Get(rec.data.doc, "industry"))
    IN  IF business_name # "" /\ rec.data.root # "dict" THEN "AttributeError"
        ELSE IF business_name # "" /\ bn.raised # "none" THEN bn.raised
        ELSE IF business_name # "" /\ ~Contains(Lower(business_name), bn.s) THEN "no"
        ELSE IF industry # "" /\ rec.data.root # "dict" THEN "AttributeError"
        ELSE IF industry # "" /\ ind.raised # "none" THEN ind.raised
        ELSE IF industry # "" /\ ~Contains(Lower(industry), ind.s) THEN "no"
        ELSE IF date # 0 /\ ~date_matches(record_date(rec.filename), date) THEN "no"
        ELSE "yes"

\* faulty variant: without a criterion the filter runs as with criteria, over
\* the records whose root is a dict
search_clients_Filtered(fs, business_name, industry, date) ==
    LET all_clients == list_clients(fs)
        m == [i \in 1..Len(all_clients.value) |->
                 IF all_clients.value[i].data.root # "dict" THEN "no"
                 ELSE matches(all_clients.value[i], business_name, industry, date)]
    IN  IF all_clients.raised # "none" THEN all_clients
        ELSE IF \E i \in 1..Len(m) : m[i] \notin {"yes", "no"}
        THEN [raised |-> "AttributeError", value |-> <<>>]
        ELSE [raised |-> "none",
              value |-> LET hit == SelectSeq([i \in 1..Len(m) |-> i], LAMBDA i : m[i] = "yes")
                        IN  [k \in 1..Len(hit) |-> all_clients.value[hit[k]]]]

\* search_clients; a criterion that is not given is "" (a string) or 0 (the
\* date)
search_clients(fs, business_name, industry, date) ==
    LET all_clients == list_clients(fs)
        m == [i \in 1..Len(all_clients.value) |->
                 matches(all_clients.value[i], business_name, industry, date)]
    IN  IF all_clients.raised # "none" THEN all_clients
        ELSE IF business_name = "" /\ industry = "" /\ date = 0 THEN all_clients
        ELSE IF \E i \in 1..Len(m) : m[i] \notin {"yes", "no"}
        THEN [raised |-> "AttributeError", value |-> <<>>]
        ELSE [raised |-> "none",
              value |-> LET hit == SelectSeq([i \in 1..Len(m) |-> i], LAMBDA i : m[i] = "yes")
                        IN  [k \in 1..Len(hit) |-> all_clients.value[hit[k]]]]

(***************************************************************************)
(* src/clients_menu.py                                                     *)
(***************************************************************************)
RECURSIVE extract_field_Truthy(_, _)
\* faulty variant: a key is passed over whenever its value is false (0, [])
extract_field_Truthy(d, keys) ==
    IF keys = <<>> THEN Null
    ELSE IF Has(d, Head(keys)) /\ Truthy(d[Head(keys)]) THEN d[Head(keys)]
    ELSE extract_field_Truthy(d, Tail(keys))

RECURSIVE extract_field(_, _)
\* the value of the first key that is in data with a value other than None
\* and ""; Null is None
extract_field(d, keys) ==
    IF keys = <<>> THEN Null
    ELSE IF Has(d, Head(keys)) /\ d[Head(keys)] # Null /\ d[Head(keys)] # Str("")
    THEN d[Head(keys)]
    ELSE extract_field(d, Tail(keys))

\* extract_field(...) or default
OrDefault(v, default) == IF Truthy(v) THEN v ELSE Str(default)

\* view_all_clients: one row for each file that parses and classifies, in
\* glob order; it has no path on which it raises
view_all_clients(fs) ==
    LET ok == SelectSeq([i \in 1..Len(fs) |-> i],
                        LAMBDA i : Parses(fs[i].content)
                                   /\ menu_is_client_record(fs[i].content.data))
    IN  [k \in 1..Len(ok) |->
            LET d == fs[ok[k]].content.data.doc
            IN  [file |-> Str(fs[ok[k]].name),
                 name |-> OrDefault(extract_field(d, <<"name", "contact_name">>), "(unknown)"),
                 email |-> OrDefault(extract_field(d, <<"email", "contact_email">>), ""),
                 business_name |-> OrDefault(extract_field(d, <<"business_name">>), "(unknown)"),
                 industry |-> OrDefault(extract_field(d, <<"industry">>), ""),
                 employees |-> OrDefault(extract_field(d, <<"employees_count", "employees">>), ""),
                 main_challenge |-> OrDefault(extract_field(d, <<"main_challenge">>), "")]]

(***************************************************************************)
(* The database specification (Spec): files appear in the folder under any *)
(* of the first MaxDbFiles names, and every call of ClientDatabase,        *)
(* clients_summary and clients_menu that reads or updates them is a step.  *)
(***************************************************************************)
DbNames == {FileNames[i] : i \in 1..MaxDbFiles}

\* a client record without industry
DocEden == [name |-> Str("Eve"), business_name |-> Str("Eden")]

DbContents ==
    {Json(Dict(DocAcme)), Json(Dict(DocEden)), Json(NonDict("list")), Malformed, Unreadable}

\* the updates passed to update_client: none, one key, and a value that
\* json.dump rejects
Updates ==
    {NoKeys, [industry |-> Str("Tech")], [notes |-> PySet]}

\* the criteria passed to search_clients
SearchNames == {"", "ACME"}
SearchIndustries == {"", "tech"}
SearchDates == {0, 20251116}

\* a new file appears in the folder (an intake tool saves a record, or the
\* file is put there by hand).  It comes last in the enumeration order; the
\* name is any unused one, so every order of the names arises.
PutFile ==
    /\ \E name \in DbNames \ Names(folder) : \E c \in DbContents :
          folder' = Append(folder, [name |-> name, content |-> c])
    /\ result' = [op |-> "save"]

\* faulty variant: listing removes the files that do not parse
ListClients_Purge ==
    /\ LET r == list_clients(folder)
       IN  result' = [op |-> "list_clients", raised |-> r.raised, value |-> r.value]
    /\ folder' = SelectSeq(folder, LAMBDA f : Parses(f.content))

ListClients ==
    /\ LET r == list_clients(folder)
       IN  result' = [op |-> "list_clients", raised |-> r.raised, value |-> r.value]
    /\ UNCHANGED folder

SearchClients ==
    /\ \E bn \in SearchNames : \E ind \in SearchIndustries : \E date \in SearchDates :
          LET r == search_clients(folder, bn, ind, date)
          IN  result' = [op |-> "search_clients", business_name |-> bn, industry |-> ind,
                         date |-> date, raised |-> r.raised, value |-> r.value]
    /\ UNCHANGED folder

LoadClient ==
    /\ \E filename \in DbNames :
          LET r == load_client(folder, filename)
          IN  result' = [op |-> "load_client", filename |-> filename,
                         raised |-> r.raised, record |-> r.record]
    /\ UNCHANGED folder

UpdateClient ==
    \E filename \in DbNames : \E updates \in Updates :
        LET r == update_client(folder, filename, updates)
        IN  /\ folder' = r.folder
            /\ result' = [op |-> "update_client", filename |-> filename, updates |-> updates,
                          raised |-> r.raised, record |-> r.record]

ViewAllClients ==
    /\ result' = [op |-> "view_all_clients", value |-> view_all_clients(folder)]
    /\ UNCHANGED folder

Next ==
    \/ PutFile
    \/ ListClients
    \/ SearchClients
    \/ LoadClient
    \/ UpdateClient
    \/ Summarize
    \/ ViewAllClients

Spec == Init /\ [][Next]_vars

(***************************************************************************)
(* Claims about update_client and the bulk loads (Spec).                   *)
(***************************************************************************)
\* the step is a call of update_client (only UpdateClient leaves such a
\* result)
UpdateStep == result'.op = "update_client"

\* the document stored under the name before the step, and what a read of
\* the file gives after it
StoredBefore(filename) == load_json(folder, filename)
StoredAfter(filename) == load_json(folder', filename)

\* the stored document d after the shallow overwrite by u, key by key
IsMergeOf(new, d, u) ==
    /\ DOMAIN new = DOMAIN d \cup DOMAIN u
    /\ \A k \in DOMAIN u : new[k] = u[k]
    /\ \A k \in DOMAIN d \ DOMAIN u : new[k] = d[k]

\* C1: update is atomic: whatever the outcome, a later read of the file sees
\* the complete merged document or the complete prior document, never an
\* empty or part-written file.
C1_UpdateAtomic ==
    [][UpdateStep =>
          \/ StoredAfter(result'.filename) = StoredBefore(result'.filename)
          \/ /\ StoredAfter(result'.filename).raised = "none"
             /\ StoredAfter(result'.filename).data.root = "dict"
             /\ IsMergeOf(StoredAfter(result'.filename).data.doc,
                          StoredBefore(result'.filename).data.doc, result'.updates)
      ]_vars

\* C2: after a successful update the stored document maps every key of the
\* updates to the update's value and every other key to its previous value,
\* the returned record holds exactly that document, no other file changes,
\* and empty updates leave the stored document as it was.
C2_UpdateMerges ==
    [][UpdateStep /\ result'.raised = "none" =>
          /\ StoredBefore(result'.filename).raised = "none"
          /\ StoredAfter(result'.filename).raised = "none"
          /\ StoredAfter(result'.filename).data.root = "dict"
          /\ IsMergeOf(StoredAfter(result'.filename).data.doc,
                       StoredBefore(result'.filename).data.doc, result'.updates)
          /\ result'.record = [filename |-> result'.filename,
                               data |-> StoredAfter(result'.filename).data]
          /\ Len(folder') = Len(folder)
          /\ \A i \in 1..Len(folder) :
                /\ folder'[i].name = folder[i].name
                /\ folder[i].name # result'.filename => folder'[i] = folder[i]
          /\ result'.updates = NoKeys => folder' = folder
      ]_vars

\* an update has overwritten the industry of the Acme record, kept its other
\* keys, and left a second file alone
C2_Witness ==
    /\ result.op = "update_client"
    /\ result.raised = "none"
    /\ result.updates = [industry |-> Str("Tech")]
    /\ result.record.data = Dict([DocAcme EXCEPT !.industry = Str("Tech")])
    /\ load_json(folder, result.filename).data = result.record.data
    /\ Len(folder) = 2

\* C3: update of a file that is not in the store fails with NotFound and
\* changes nothing: no file is created and every stored document stays.
C3_UpdateNotFound ==
    [][UpdateStep /\ result'.filename \notin Names(folder) =>
          /\ result'.raised = "FileNotFoundError"
          /\ folder' = folder
      ]_vars

\* an update with a key to set, of a name that is not in the non-empty store
C3_Witness ==
    /\ result.op = "update_client"
    /\ result.raised = "FileNotFoundError"
    /\ result.filename \notin Names(folder)
    /\ result.updates = [industry |-> Str("Tech")]
    /\ folder # <<>>

\* the files whose text is no JSON document or cannot be read
BadFiles == {folder[i].name : i \in {j \in 1..Len(folder) :
                                      folder[j].content.kind # "json"}}
WellFormedFiles == Names(folder) \ BadFiles

\* C4: in a bulk load (summarize, view_all_clients, list_clients,
\* search_clients) a malformed or unreadable file is skipped: the call does
\* not raise because of it, the file gives no record, and every well-formed
\* document is still processed.
C4_BulkLoadSkips ==
    /\ result.op \in {"list_clients", "search_clients"} =>
          /\ result.raised \notin {"OSError", "ValueError", "FileNotFoundError"}
          /\ \A i \in 1..Len(result.value) : result.value[i].filename \in WellFormedFiles
    /\ result.op = "list_clients" =>
          {result.value[i].filename : i \in 1..Len(result.value)} = WellFormedFiles
    /\ result.op = "view_all_clients" =>
          {result.value[i].file.s : i \in 1..Len(result.value)}
              = {f \in WellFormedFiles : is_client_record(load_json(folder, f).data)}
    /\ result.op = "summarize" =>
          result.value.total
              = Cardinality({f \in WellFormedFiles : is_client_record(load_json(folder, f).data)})

(***************************************************************************)
(* extract_field as a function of the document and the key list            *)
(* (SpecExtract): each of three keys is missing, null, empty, zero or      *)
(* filled, and the keys are asked for in several orders.                   *)
(***************************************************************************)
ExtractDocs ==
    LET choices == [employees_count : {Missing, Null, Str(""), Num(0), Num(10)},
                    employees : {Missing, Null, Str(""), Num(0), Num(20)},
                    num_employees : {Missing, Null, Str(""), Num(0), Num(30)}]
    IN  {[k \in {x \in DOMAIN a : a[x] # Missing} |-> a[k]] : a \in choices}

ExtractKeyLists ==
    {<<>>, <<"employees_count">>, <<"employees_count", "employees">>,
     <<"employees_count", "employees", "num_employees">>,
     <<"num_employees", "employees_count">>, <<"contact_name">>}

\* extract_field(data, *keys)
ExtractField ==
    /\ \E d \in ExtractDocs : \E keys \in ExtractKeyLists :
          result' = [op |-> "extract_field", data |-> d, keys |-> keys,
                     value |-> extract_field(d, keys)]
    /\ UNCHANGED folder

NextExtract == ExtractField

SpecExtract == Init /\ [][NextExtract]_vars

\* key number i of the call is in the document with a value that is neither
\* null nor the empty string
Qualifies(i) ==
    /\ result.keys[i] \in DOMAIN result.data
    /\ result.data[result.keys[i]] # Null
    /\ result.data[result.keys[i]] # Str("")

\* C11: extract_field returns the value of the first key, in the given
\* order, that is in raw with a value that is neither null nor the empty
\* string, whatever the later keys hold; it returns None when no key
\* qualifies, and a missing key is no error.
C11_FirstQualifyingKey ==
    result.op = "extract_field" =>
        IF \E i \in 1..Len(result.keys) : Qualifies(i)
        THEN \E i \in 1..Len(result.keys) :
                /\ Qualifies(i)
                /\ \A j \in 1..(i - 1) : ~Qualifies(j)
                /\ result.value = result.data[result.keys[i]]
        ELSE result.value = Null

\* the first key is null, the second holds 0 and is returned although a
\* later key holds 30
C11_Witness ==
    /\ result.op = "extract_field"
    /\ result.keys = <<"employees_count", "employees", "num_employees">>
    /\ result.data = [employees_count |-> Null, employees |-> Num(0),
                      num_employees |-> Num(30)]
    /\ result.value = Num(0)

(***************************************************************************)
(* Listing and searching (SpecList): up to MaxDbFiles files under three    *)
(* names (two of the same date, one of the date 0001-01-01 and one        *)
(* undated), put in any order, and                                         *)
(* every call of list_clients and search_clients on them.  Unreadable      *)
(* files are left to Spec.                                                 *)
(***************************************************************************)
ListNames ==
    {"acme-2025-11-16.json", "cart-2025-11-16.json", "fay-0001-01-01.json", "fay.json"}

\* DocAcme in another industry
DocAcmeTech == Merged(DocAcme, [industry |-> Str("Tech")])

\* a client record whose business name is a number and that has no industry
DocOdd == [name |-> Str("Eve"), business_name |-> Num(42)]

\* a JSON object that is no client record: it has no business name at all
DocStray == [industry |-> Str("Tech")]

ListContents ==
    {Json(Dict(DocAcme)), Json(Dict(DocAcmeTech)), Json(Dict(DocOdd)),
     Json(Dict(DocStray)), Json(NonDict("list")), Malformed}

PutListFile ==
    /\ Len(folder) < MaxDbFiles
    /\ \E name \in ListNames \ Names(folder) : \E c \in ListContents :
          folder' = Append(folder, [name |-> name, content |-> c])
    /\ result' = [op |-> "save"]

NextList ==
    \/ PutListFile
    \/ ListClients
    \/ SearchClients

SpecList == Init /\ [][NextList]_vars

\* the last call was a search that gave no criterion at all
SearchedWithoutCriteria ==
    /\ result.op = "search_clients"
    /\ result.business_name = ""
    /\ result.industry = ""
    /\ result.date = 0

\* C12: a search without any criterion (no business name, no industry, no
\* date) returns exactly the sequence that listing returns, in the same
\* order.
C12_NoCriterionIsListing ==
    SearchedWithoutCriteria =>
        /\ result.raised = list_clients(folder).raised
        /\ result.value = list_clients(folder).value

\* a search without criteria over two files, one of them with a root that is
\* no dict, returns both
C12_Witness ==
    /\ SearchedWithoutCriteria
    /\ result.raised = "none"
    /\ Len(result.value) = 2
    /\ \E i \in 1..2 : result.value[i].data.root # "dict"

\* the last call was list_clients or search_clients and it returned
Returned ==
    /\ result.op \in {"list_clients", "search_clients"}
    /\ result.raised = "none"

\* the files of the folder that parse, and those of them with a dict root
ParsedFiles == {i \in 1..Len(folder) : Parses(folder[i].content)}
DictFiles == {i \in ParsedFiles : folder[i].content.data.root = "dict"}

\* the canonical business name of a document: the first of business_name,
\* business and name that is filled; Null when none is
CanonicalName(d) ==
    LET filled == SelectSeq(<<"business_name", "business", "name">>,
                            LAMBDA k : k \in DOMAIN d /\ d[k] # Null /\ d[k] # Str(""))
    IN  IF filled = <<>> THEN Null ELSE d[Head(filled)]

\* a string criterion is satisfied by a field: not given, or the field is a
\* string that holds it as a substring, case ignored
Satisfied(criterion, field) ==
    \/ criterion = ""
    \/ /\ field.t = "str"
       /\ Contains(Lower(criterion), Lower(field.s))

\* the record satisfies every criterion of the last search
SatisfiesAll(rec) ==
    /\ Satisfied(result.business_name, CanonicalName(rec.data.doc))
    /\ Satisfied(result.industry, Get(rec.data.doc, "industry"))
    /\ result.date # 0 => record_date(rec.filename) = result.date

\* C13: a search returns exactly the listed records that satisfy every
\* criterion given (AND); a string criterion is satisfied when it is a
\* substring, case ignored, of the canonical business name (resp. the
\* industry), never by an absent field, and no field value makes the search
\* raise.  Stated for the stores in which every parsed root is a dict.
C13_SearchFilters ==
    (result.op = "search_clients" /\ DictFiles = ParsedFiles) =>
        /\ result.raised = "none"
        /\ result.value = SelectSeq(list_clients(folder).value, SatisfiesAll)

\* C17: a document that parses to a root that is no mapping yields no record
\* in list_clients or search_clients, and neither call raises because of it,
\* whatever the criteria.
C17_NonMappingRootSkipped ==
    result.op \in {"list_clients", "search_clients"} =>
        /\ result.raised = "none"
        /\ \A i \in 1..Len(result.value) : result.value[i].data.root = "dict"

\* C18: every record that list_clients or search_clients returns is a stored
\* document that satisfies the classification predicate, and list_clients
\* returns every stored document that satisfies it.  Stated for the stores
\* in which every parsed root is a dict.
C18_OnlyClassifiedListed ==
    (Returned /\ DictFiles = ParsedFiles) =>
        /\ \A i \in 1..Len(result.value) :
              /\ \E j \in ParsedFiles :
                    /\ folder[j].name = result.value[i].filename
                    /\ folder[j].content.data = result.value[i].data
              /\ is_client_record(result.value[i].data)
        /\ result.op = "list_clients" =>
              \A j \in ParsedFiles :
                  is_client_record(folder[j].content.data) =>
                      \E i \in 1..Len(result.value) :
                          result.value[i].filename = folder[j].name

\* the record's file name gives no date
Undated(rec) == record_date(rec.filename) = 0

\* C15: what list_clients and search_clients return is in ascending order
\* of the file name's date, the undated records first, records of the same
\* date (and the undated ones) in the lexicographic order of their file
\* names, whatever the order in which the directory lists the files.
C15_SortedByDateThenName ==
    Returned =>
        \A i, j \in 1..Len(result.value) :
            i < j =>
                LET a == result.value[i]
                    b == result.value[j]
                IN  \/ Undated(a) /\ ~Undated(b)
                    \/ /\ Undated(a) = Undated(b)
                       /\ record_date(a.filename) < record_date(b.filename)
                    \/ /\ record_date(a.filename) = record_date(b.filename)
                       /\ FileRank(a.filename) < FileRank(b.filename)

(***************************************************************************)
(* ClientRecord.date character by character (SpecDate): a file name is the *)
(* sequence of its characters, put together from a slug, a separator, a    *)
(* date part and an extension.                                             *)
(***************************************************************************)
Digits == <<"0", "1", "2", "3", "4", "5", "6", "7", "8", "9">>

IsDigit(c) == \E i \in 1..Len(Digits) : Digits[i] = c

\* int(c) of a digit
DigitValue(c) == (CHOOSE i \in 1..Len(Digits) : Digits[i] = c) - 1

\* str.lower() of one character of an extension
LowerChar(c) ==
    CASE c = "J" -> "j"
      [] c = "S" -> "s"
      [] c = "O" -> "o"
      [] c = "N" -> "n"
      [] c = "Y" -> "y"
      [] c = "E" -> "e"
      [] OTHER -> c

\* os.path.splitext of a name without directory: the extension starts at the
\* last dot, unless nothing but dots comes before it
splitext(base) ==
    LET dots == {i \in 1..Len(base) : base[i] = "."}
        last == CHOOSE i \in dots : \A j \in dots : j <= i
    IN  IF dots = {} \/ \A i \in 1..(last - 1) : base[i] = "."
        THEN [name |-> base, ext |-> <<>>]
        ELSE [name |-> SubSeq(base, 1, last - 1), ext |-> SubSeq(base, last, Len(base))]

\* the days of a month of the proleptic Gregorian calendar
DaysIn(y, m) ==
    IF m = 2
    THEN IF y % 4 = 0 /\ (y % 100 # 0 \/ y % 400 = 0) THEN 29 ELSE 28
    ELSE IF m \in {4, 6, 9, 11} THEN 30 ELSE 31

\* datetime.strptime(c, "%Y-%m-%d") on 10 characters, as the number YYYYMMDD;
\* 0 is ValueError.  %Y is four digits, %m is 01..12 and %d, with two
\* characters left, is 01..31 or a space and 1..9; the year 0 and a day past
\* the end of the month are rejected by datetime.
strptime(c) ==
    LET y == 1000 * DigitValue(c[1]) + 100 * DigitValue(c[2])
             + 10 * DigitValue(c[3]) + DigitValue(c[4])
        m == 10 * DigitValue(c[6]) + DigitValue(c[7])
        d == (IF c[9] = " " THEN 0 ELSE 10 * DigitValue(c[9])) + DigitValue(c[10])
    IN  IF /\ \A i \in {1, 2, 3, 4, 6, 7, 10} : IsDigit(c[i])
           /\ c[5] = "-" /\ c[8] = "-"
           /\ IsDigit(c[9]) \/ c[9] = " "
           /\ m \in 1..12
           /\ d \in 1..31
           /\ y >= 1
           /\ d <= DaysIn(y, m)
        THEN 10000 * y + 100 * m + d
        ELSE 0

\* faulty variant: the date is taken only when a "-" stands before the last
\* 10 characters
ClientRecord_date_Dash(filename) ==
    LET parts == splitext(filename)
        name == parts.name
    IN  IF [i \in 1..Len(parts.ext) |-> LowerChar(parts.ext[i])] # <<".", "j", "s", "o", "n">>
        THEN 0
        ELSE IF Len(name) >= 11 /\ name[Len(name) - 10] = "-"
        THEN strptime(SubSeq(name, Len(name) - 9, Len(name)))
        ELSE 0

\* ClientRecord.date of a file name: the number YYYYMMDD, 0 is None
ClientRecord_date(filename) ==
    LET parts == splitext(filename)
        name == parts.name
    IN  IF [i \in 1..Len(parts.ext) |-> LowerChar(parts.ext[i])] # <<".", "j", "s", "o", "n">>
        THEN 0
        ELSE IF Len(name) >= 11
        THEN strptime(SubSeq(name, Len(name) - 9, Len(name)))
        ELSE 0

\* the characters of the file names of the folder specifications
FileChars(filename) ==
    CASE filename = "acme-2025-11-16.json" ->
             <<"a", "c", "m", "e", "-", "2", "0", "2", "5", "-", "1", "1", "-", "1", "6", ".", "j", "s", "o", "n">>
      [] filename = "acme.json" ->
             <<"a", "c", "m", "e", ".", "j", "s", "o", "n">>
      [] filename = "byte-2024-01-02.json" ->
             <<"b", "y", "t", "e", "-", "2", "0", "2", "4", "-", "0", "1", "-", "0", "2", ".", "j", "s", "o", "n">>
      [] filename = "cart-2025-11-16.json" ->
             <<"c", "a", "r", "t", "-", "2", "0", "2", "5", "-", "1", "1", "-", "1", "6", ".", "j", "s", "o", "n">>
      [] filename = "dot.json" ->
             <<"d", "o", "t", ".", "j", "s", "o", "n">>
      [] filename = "eve.json" ->
             <<"e", "v", "e", ".", "j", "s", "o", "n">>
      [] filename = "fay-0001-01-01.json" ->
             <<"f", "a", "y", "-", "0", "0", "0", "1", "-", "0", "1", "-", "0", "1", ".", "j", "s", "o", "n">>
      [] filename = "fay.json" ->
             <<"f", "a", "y", ".", "j", "s", "o", "n">>

DateSlugs == {<<>>, <<"a">>, <<"a", "c", "m", "e">>}
DateSeparators == {<<>>, <<"-">>, <<"_">>}
DateParts ==
    {<<"2", "0", "2", "5", "-", "1", "1", "-", "1", "6">>,
     <<"2", "0", "2", "4", "-", "0", "2", "-", "2", "9">>,
     <<"2", "0", "2", "5", "-", "0", "2", "-", "2", "9">>,
     <<"2", "0", "2", "5", "-", "1", "3", "-", "0", "1">>,
     <<"2", "0", "2", "5", "-", "0", "0", "-", "1", "0">>,
     <<"0", "0", "0", "0", "-", "0", "1", "-", "0", "1">>,
     <<"0", "0", "0", "1", "-", "0", "1", "-", "0", "1">>,
     <<"2", "0", "2", "5", "-", "1", "1", "-", " ", "5">>,
     <<"2", "0", "2", "5", "-", "1", "1", "-", "5", " ">>,
     <<"2", "0", "2", "5", "-", "1", "-", "1", "6">>,
     <<"2", "0", "2", "5", "1", "1", "1", "6">>,
     <<"2", "0", "2", "5", "_", "1", "1", "_", "1", "6">>,
     <<"2", "0", "2", "5", "-", "1", "1", "-", "1", "x">>,
     <<>>}
DateExtensions ==
    {<<".", "j", "s", "o", "n">>, <<".", "J", "S", "O", "N">>, <<".", "t", "x", "t">>, <<>>}

DateFileNames ==
    {a \o b \o c \o d : a \in DateSlugs, b \in DateSeparators,
                        c \in DateParts, d \in DateExtensions}

\* the dates asked for in a search
DateCriteria == {20251116, 20251105}

\* record.date of a record of that file name, and the date test of a search
\* for the criterion
RecordDate ==
    /\ \E filename \in DateFileNames : \E criterion \in DateCriteria :
          LET value == ClientRecord_date(filename)
          IN  result' = [op |-> "date", filename |-> filename, value |-> value,
                         criterion |-> criterion,
                         matched |-> date_matches(value, criterion)]
    /\ UNCHANGED folder

NextDate == RecordDate

SpecDate == Init /\ [][NextDate]_vars

\* the part of the last file name before its last dot, and the part from it
Stem ==
    LET f == result.filename
    IN  IF \E i \in 1..Len(f) : f[i] = "."
        THEN SubSeq(f, 1, (CHOOSE i \in 1..Len(f) :
                              f[i] = "." /\ \A j \in (i + 1)..Len(f) : f[j] # ".") - 1)
        ELSE f
Extension == SubSeq(result.filename, Len(Stem) + 1, Len(result.filename))

\* the last n characters of the stem
LastOfStem(n) == SubSeq(Stem, Len(Stem) - n + 1, Len(Stem))

\* the 10 characters are four digits, "-", two digits, "-", two digits
DateShaped(c) ==
    /\ Len(c) = 10
    /\ c[5] = "-" /\ c[8] = "-"
    /\ \A i \in {1, 2, 3, 4, 6, 7, 9, 10} : IsDigit(c[i])

\* the file name is <slug>-YYYY-MM-DD.<ext>
Conforms ==
    /\ Extension # <<>>
    /\ Len(Stem) >= 11
    /\ DateShaped(LastOfStem(10))
    /\ LastOfStem(11)[1] = "-"

\* C14: a record's date comes from its file name alone and only when the
\* name is <slug>-YYYY-MM-DD.<ext>, from the last 10 characters before the
\* extension ("acme-2025-11-16.json" gives 2025-11-16, "acme.json" gives
\* none); a name that does not conform has no date and matches no date
\* criterion, and a record matches a date criterion exactly when its date
\* is the criterion's.
C14_DateOnlyWhenConforming ==
    result.op = "date" =>
        /\ ~Conforms => (result.value = 0 /\ ~result.matched)
        /\ result.matched <=> result.value = result.criterion
        /\ result.filename = FileChars("acme-2025-11-16.json") => result.value = 20251116
        /\ result.filename = FileChars("acme.json") => result.value = 0

\* the number YYYYMMDD written as YYYY-MM-DD, the day with a leading zero or
\* with a leading space
Written(n, pad) ==
    LET y == n \div 10000
        m == (n \div 100) % 100
        d == n % 100
    IN  <<Digits[(y \div 1000) + 1], Digits[((y \div 100) % 10) + 1],
          Digits[((y \div 10) % 10) + 1], Digits[(y % 10) + 1], "-",
          Digits[(m \div 10) + 1], Digits[(m % 10) + 1], "-",
          IF d < 10 THEN pad ELSE Digits[(d \div 10) + 1], Digits[(d % 10) + 1]>>

\* the days of the calendar that the date parts of the model write
CalendarDays == {20251116, 20240229, 10101, 20251105}

\* the date that the last 10 characters of the stem write, 0 when they write
\* none of the calendar days
DateWritten ==
    LET days == {n \in CalendarDays : LastOfStem(10) \in {Written(n, "0"), Written(n, " ")}}
    IN  IF days = {} THEN 0 ELSE CHOOSE n \in days : TRUE

\* C14 (amended): a record's date comes from its file name alone: when the
\* extension is ".json" in any letter case and the stem has 11 characters or
\* more, the date is the calendar day that the last 10 characters of the
\* stem write as YYYY-MM-DD (the day may have a space for its leading zero),
\* whatever stands before them; every other name has no date and matches no
\* date criterion; a record matches a date criterion exactly when its date
\* is the criterion's.  The dates of the folder specifications agree.
C14_DateFromLastTenChars ==
    /\ result.op = "date" =>
          /\ result.value =
                IF /\ [i \in 1..Len(Extension) |-> LowerChar(Extension[i])]
                         = <<".", "j", "s", "o", "n">>
                   /\ Len(Stem) >= 11
                THEN DateWritten
                ELSE 0
          /\ result.value = 0 => ~result.matched
          /\ result.matched <=> result.value = result.criterion
          /\ result.filename = FileChars("acme-2025-11-16.json") => result.value = 20251116
          /\ result.filename = FileChars("acme.json") => result.value = 0
    /\ \A i \in 1..Len(FileNames) :
          record_date(FileNames[i]) = ClientRecord_date(FileChars(FileNames[i]))

\* "acme_2025-11-16.json" has no "-" before the date, yet the record has the
\* date 2025-11-16 and matches a search for it
C14_Witness ==
    /\ result.op = "date"
    /\ result.filename = <<"a", "c", "m", "e", "_", "2", "0", "2", "5", "-", "1", "1", "-", "1", "6", ".", "j", "s", "o", "n">>
    /\ result.value = 20251116
    /\ result.criterion = 20251116
    /\ result.matched

(***************************************************************************)
(* Reads leave the store alone (Spec).                                     *)
(***************************************************************************)
ReadOps == {"summarize", "list_clients", "load_client", "search_clients"}

\* C16: loading, classifying, aggregating, listing and searching are pure
\* reads: a call of summarize, list_clients, load_client or search_clients
\* leaves every stored document as it was, whether it returns or raises,
\* and a summarize that follows a summarize with no write between them
\* returns the same aggregate.
C16_ReadsArePure ==
    [][/\ result'.op \in ReadOps => folder' = folder
       /\ (result.op = "summarize" /\ result'.op = "summarize") =>
              result'.value = result.value]_vars

\* a summarize over a store that holds a client record and a file that does
\* not parse
C16_Witness ==
    /\ result.op = "summarize"
    /\ result.value.total = 1
    /\ Len(folder) = 2
    /\ \E i \in 1..2 : ~Parses(folder[i].content)

(***************************************************************************)
(* src/consulting/data_processing.py: sanitize_filename, character by      *)
(* character (SpecSanitize).  A name is the sequence of its characters.    *)
(***************************************************************************)
MaxNameLen == 3

UpperLetters ==
    {"A", "B", "C", "D", "E", "F", "G", "H", "I", "J", "K", "L", "M",
     "N", "O", "P", "Q", "R", "S", "T", "U", "V", "W", "X", "Y", "Z"}
LowerLetters ==
    {"a", "b", "c", "d", "e", "f", "g", "h", "i", "j", "k", "l", "m",
     "n", "o", "p", "q", "r", "s", "t", "u", "v", "w", "x", "y", "z"}

\* \s on the characters of the model
IsSpace(c) == c \in {" ", "\t"}

\* [A-Za-z0-9_-]
IsAllowed(c) == c \in UpperLetters \cup LowerLetters \cup {"_", "-"} \/ IsDigit(c)

\* name.strip()
strip(name) ==
    LET solid == {i \in 1..Len(name) : ~IsSpace(name[i])}
    IN  IF solid = {} THEN <<>>
        ELSE SubSeq(name, CHOOSE i \in solid : \A j \in solid : i <= j,
                          CHOOSE i \in solid : \A j \in solid : j <= i)

RECURSIVE sub_spaces(_)
\* re.sub(r"\s+", "_", name): every longest run of whitespace becomes "_"
sub_spaces(name) ==
    IF name = <<>> THEN <<>>
    ELSE IF ~IsSpace(Head(name)) THEN <<Head(name)>> \o sub_spaces(Tail(name))
    ELSE IF Len(name) > 1 /\ IsSpace(name[2]) THEN sub_spaces(Tail(name))
    ELSE <<"_">> \o sub_spaces(Tail(name))

\* re.sub(r"[^A-Za-z0-9_-]", "", cleaned)
sub_disallowed(cleaned) == SelectSeq(cleaned, IsAllowed)

Business == <<"b", "u", "s", "i", "n", "e", "s", "s">>

\* faulty variant: the name is not stripped first
sanitize_filename_NoStrip(name) ==
    IF name = <<>> THEN Business
    ELSE LET cleaned == sub_disallowed(sub_spaces(name))
         IN  IF cleaned = <<>> THEN Business ELSE cleaned

\* consulting.data_processing.sanitize_filename
sanitize_filename(name) ==
    IF name = <<>> THEN Business
    ELSE LET cleaned == sub_disallowed(sub_spaces(strip(name)))
         IN  IF cleaned = <<>> THEN Business ELSE cleaned

\* the characters the names are made of: a letter, a digit, the two allowed
\* signs, two kinds of whitespace and a sign that is not allowed
NameChars == {"A", "1", "_", "-", " ", "\t", "!"}

AcmeCorp == <<"A", "c", "m", "e", " ", "C", "o", "r", "p", "!">>

SanitizeInputs ==
    UNION {[1..n -> NameChars] : n \in 0..MaxNameLen} \cup {AcmeCorp}

Sanitize ==
    /\ \E name \in SanitizeInputs :
          result' = [op |-> "sanitize_filename", name |-> name,
                     value |-> sanitize_filename(name)]
    /\ UNCHANGED folder

NextSanitize == Sanitize

SpecSanitize == Init /\ [][NextSanitize]_vars

\* the positions of the name that leave a character in the result: those of
\* the allowed characters, and the first position of every whitespace run
\* that has a character that is no whitespace somewhere before it and
\* somewhere after it
KeptPositions ==
    LET name == result.name
        n == Len(name)
    IN  {i \in 1..n :
            \/ IsAllowed(name[i])
            \/ /\ IsSpace(name[i])
               /\ i > 1 /\ ~IsSpace(name[i - 1])
               /\ \E j \in (i + 1)..n : ~IsSpace(name[j])}

\* C19: sanitize_filename returns a string that is not empty and holds only
\* characters of [A-Za-z0-9_-]: the name trimmed, every whitespace run
\* turned into one underscore and every other character that is not allowed
\* deleted ("Acme Corp!" gives "Acme_Corp"), and "business" when the name is
\* empty or nothing is left of it.
C19_SanitizedName ==
    result.op = "sanitize_filename" =>
        LET kept == SelectSeq([i \in 1..Len(result.name) |-> i],
                              LAMBDA i : i \in KeptPositions)
            expected == [k \in 1..Len(kept) |->
                            IF IsSpace(result.name[kept[k]]) THEN "_"
                            ELSE result.name[kept[k]]]
        IN  /\ result.value # <<>>
            /\ \A i \in 1..Len(result.value) : IsAllowed(result.value[i])
            /\ result.value = IF expected = <<>> THEN Business ELSE expected
            /\ result.name = AcmeCorp =>
                  result.value = <<"A", "c", "m", "e", "_", "C", "o", "r", "p">>

\* "Acme Corp!": a space inside and a sign that is not allowed
C19_Witness ==
    /\ result.op = "sanitize_filename"
    /\ result.name = AcmeCorp
    /\ Len(result.value) = Len(AcmeCorp) - 1
    /\ result.value[5] = "_"

(***************************************************************************)
(* src/business_analyzer.py: prompt_int (SpecPrompt).  One step is one     *)
(* line read by input(), or the end of the input; a line is the sequence   *)
(* of its characters.                                                      *)
(***************************************************************************)
MaxLineLen == 3
MaxRejected == 3

\* raw.replace(",", "")
remove_commas(raw) == SelectSeq(raw, LAMBDA c : c # ",")

RECURSIVE digits_value(_)
\* the number that a string of decimal digits writes
digits_value(ds) ==
    IF ds = <<>> THEN 0
    ELSE 10 * digits_value(SubSeq(ds, 1, Len(ds) - 1)) + DigitValue(ds[Len(ds)])

\* int(text): whitespace around the number is ignored, one sign may come
\* first, and one digit at least must follow and nothing else; ok is FALSE
\* for ValueError
int_of(text) ==
    LET t == strip(text)
        signed == t # <<>> /\ t[1] \in {"+", "-"}
        ds == IF signed THEN Tail(t) ELSE t
    IN  IF ds # <<>> /\ \A i \in 1..Len(ds) : IsDigit(ds[i])
        THEN [ok |-> TRUE,
              n |-> IF signed /\ t[1] = "-" THEN 0 - digits_value(ds) ELSE digits_value(ds)]
        ELSE [ok |-> FALSE, n |-> 0]

\* faulty variant: a negative number is returned like any other
prompt_int_line_Negative(rejected, line) ==
    LET value == strip(line)
        val == int_of(remove_commas(value))
    IN  IF value = <<>>
        THEN [op |-> "prompt_int", status |-> "reading", line |-> line,
              rejected |-> rejected + 1, value |-> 0]
        ELSE IF val.ok
        THEN [op |-> "prompt_int", status |-> "returned", line |-> line,
              rejected |-> rejected, value |-> val.n]
        ELSE [op |-> "prompt_int", status |-> "reading", line |-> line,
              rejected |-> rejected + 1, value |-> 0]

\* one turn of the loops of prompt_int and prompt_nonempty on a line that
\* input() returns: a line that strips to nothing and a line that int()
\* rejects or that is negative are answered with a message and the next
\* prompt, any other line ends the call with its value
prompt_int_line(rejected, line) ==
    LET value == strip(line)
        val == int_of(remove_commas(value))
    IN  IF value = <<>>
        THEN [op |-> "prompt_int", status |-> "reading", line |-> line,
              rejected |-> rejected + 1, value |-> 0]
        ELSE IF val.ok /\ val.n >= 0
        THEN [op |-> "prompt_int", status |-> "returned", line |-> line,
              rejected |-> rejected, value |-> val.n]
        ELSE [op |-> "prompt_int", status |-> "reading", line |-> line,
              rejected |-> rejected + 1, value |-> 0]

\* the characters typed: digits, the comma, the minus sign and a letter
LineChars == {"0", "1", ",", "-", "a"}

\* the lines of the test, and lines with whitespace and with a plus sign
LinesOfTest == {<<"a", "b", "c">>, <<"-", "5">>, <<"1", ",", "2", "3", "4">>}
LinesWithSpace == {<<" ">>, <<" ", "1", " ">>, <<",", " ", "1">>, <<"1", " ", "0">>, <<"+", "1">>}

PromptLines ==
    UNION {[1..n -> LineChars] : n \in 0..MaxLineLen} \cup LinesOfTest \cup LinesWithSpace

\* prompt_int is called
PromptCall ==
    /\ result = NoResult
    /\ result' = [op |-> "prompt_int", status |-> "reading", line |-> <<>>,
                  rejected |-> 0, value |-> 0]
    /\ UNCHANGED folder

\* input() returns a line
PromptLine ==
    /\ result.op = "prompt_int" /\ result.status = "reading"
    /\ result.rejected < MaxRejected
    /\ \E line \in PromptLines : result' = prompt_int_line(result.rejected, line)
    /\ UNCHANGED folder

\* input() raises EOFError: sys.exit(1)
PromptEOF ==
    /\ result.op = "prompt_int" /\ result.status = "reading"
    /\ result' = [result EXCEPT !.status = "exited"]
    /\ UNCHANGED folder

NextPrompt ==
    \/ PromptCall
    \/ PromptLine
    \/ PromptEOF

SpecPrompt == Init /\ [][NextPrompt]_vars

\* the powers of ten: PowersOfTen[k + 1] is 10^k
PowersOfTen == <<1, 10, 100, 1000, 10000, 100000>>

\* the digits ds are the decimal writing of the number v, leading zeros
\* included
WritesNumber(ds, v) ==
    /\ v < PowersOfTen[Len(ds) + 1]
    /\ \A i \in 1..Len(ds) :
          DigitValue(ds[i]) = (v \div PowersOfTen[Len(ds) - i + 1]) % 10

\* the line without its commas and without the whitespace around the rest
Typed(line) == strip(SelectSeq(line, LAMBDA c : c # ","))

\* the digits of the line, after one sign if there is one
TypedDigits(line) ==
    IF Typed(line) # <<>> /\ Typed(line)[1] \in {"+", "-"}
    THEN Tail(Typed(line))
    ELSE Typed(line)

\* the line writes an integer that is not negative: digits, one at least,
\* after "+" or nothing, or after "-" when all of them are 0
WritesNonNegative(line) ==
    LET ds == TypedDigits(line)
    IN  /\ ds # <<>>
        /\ \A i \in 1..Len(ds) : IsDigit(ds[i])
        /\ Typed(line)[1] = "-" => \A i \in 1..Len(ds) : ds[i] = "0"

\* C20: whatever the lines typed, prompt_int answers each line that is
\* empty, no number or negative by prompting again, and returns the integer
\* value, commas removed, of the first line that writes an integer that is
\* not negative; it never returns a negative number or a value from a
\* rejected line, and it reads no line after it has returned.
C20_PromptIntLoop ==
    [][/\ (result.op = "prompt_int" /\ result.status = "reading"
              /\ result'.status # "exited") =>
             IF WritesNonNegative(result'.line)
             THEN /\ result'.status = "returned"
                  /\ result'.value >= 0
                  /\ WritesNumber(TypedDigits(result'.line), result'.value)
                  /\ result'.rejected = result.rejected
             ELSE /\ result'.status = "reading"
                  /\ result'.rejected = result.rejected + 1
       /\ (result.op = "prompt_int" /\ result.status # "reading") =>
             result' = result]_vars

\* the lines of the test: two lines are rejected, then "1,234" returns 1234
C20_Witness ==
    /\ result.op = "prompt_int"
    /\ result.status = "returned"
    /\ result.rejected = 2
    /\ result.line = <<"1", ",", "2", "3", "4">>
    /\ result.value = 1234

(***************************************************************************)
(* src/business_analyzer.py: prompt_challenges (SpecChallenges).  One step *)
(* is one turn of the for loop: a line read by input(), or the end of the  *)
(* input.  read is the lines read so far, as typed.                        *)
(***************************************************************************)
MaxItems == 3

\* faulty variant: a blank line is passed over and the loop goes on
prompt_challenges_line_Skip(st, line) ==
    LET val == strip(line)
        items == IF val = <<>> THEN st.items ELSE Append(st.items, val)
    IN  [st EXCEPT !.read = Append(st.read, line),
                   !.items = items,
                   !.status = IF Len(st.read) + 1 = st.max_items
                              THEN "returned" ELSE "reading"]

\* one turn of the loop on a line that input() returns: a line that strips
\* to nothing ends the loop, any other is appended stripped, and the loop
\* ends after max_items turns
prompt_challenges_line(st, line) ==
    LET val == strip(line)
    IN  IF val = <<>>
        THEN [st EXCEPT !.read = Append(st.read, line), !.status = "returned"]
        ELSE [st EXCEPT !.read = Append(st.read, line),
                        !.items = Append(st.items, val),
                        !.status = IF Len(st.read) + 1 = st.max_items
                                   THEN "returned" ELSE "reading"]

\* the lines typed: nothing, whitespace, two entries, and an entry with
\* whitespace around it
ChallengeLines == {<<>>, <<" ">>, <<"A">>, <<"B">>, <<" ", "A", " ">>}

\* prompt_challenges(max_items) is called; range(1, max_items + 1) is empty
\* for 0
ChallengesCall ==
    /\ result = NoResult
    /\ \E max_items \in 0..MaxItems :
          result' = [op |-> "prompt_challenges", max_items |-> max_items,
                     status |-> IF max_items = 0 THEN "returned" ELSE "reading",
                     read |-> <<>>, items |-> <<>>, eof |-> FALSE]
    /\ UNCHANGED folder

\* input() returns a line
ChallengeLine ==
    /\ result.op = "prompt_challenges" /\ result.status = "reading"
    /\ \E line \in ChallengeLines : result' = prompt_challenges_line(result, line)
    /\ UNCHANGED folder

\* input() raises EOFError: the loop ends with what was collected
ChallengeEOF ==
    /\ result.op = "prompt_challenges" /\ result.status = "reading"
    /\ result' = [result EXCEPT !.status = "returned", !.eof = TRUE]
    /\ UNCHANGED folder

NextChallenges ==
    \/ ChallengesCall
    \/ ChallengeLine
    \/ ChallengeEOF

SpecChallenges == Init /\ [][NextChallenges]_vars

\* the line strips to nothing
Blank(line) == \A i \in 1..Len(line) : IsSpace(line[i])

\* the line without the whitespace at its two ends
Trimmed(line) ==
    LET solid == {i \in 1..Len(line) : ~IsSpace(line[i])}
    IN  [k \in 1..Cardinality({i \in 1..Len(line) :
                                  /\ \E j \in solid : j <= i
                                  /\ \E j \in solid : j >= i}) |->
            line[k + Cardinality({i \in 1..Len(line) : \A j \in solid : i < j}) ]]

\* C21: prompt_challenges(max_items) returns, in the order typed, exactly
\* the entries that are not blank and were read before the first blank
\* entry or the end of the input (each without the whitespace around it),
\* reads nothing after that first blank, and never returns more than
\* max_items entries.
C21_ChallengesUntilBlank ==
    result.op = "prompt_challenges" =>
        LET read == result.read
            entries == IF read # <<>> /\ Blank(read[Len(read)])
                       THEN SubSeq(read, 1, Len(read) - 1) ELSE read
        IN  /\ \A i \in 1..(Len(read) - 1) : ~Blank(read[i])
            /\ (read # <<>> /\ Blank(read[Len(read)])) => result.status = "returned"
            /\ result.items = [i \in 1..Len(entries) |-> Trimmed(entries[i])]
            /\ Len(result.items) <= result.max_items
            /\ Len(read) <= result.max_items
            /\ result.status = "reading" => Len(read) < result.max_items

\* the lines of the test: "A", "B" and a blank line with max_items = 3 give
\* the two entries
C21_Witness ==
    /\ result.op = "prompt_challenges"
    /\ result.status = "returned"
    /\ result.max_items = 3
    /\ result.read = <<<<"A">>, <<"B">>, <<>>>>
    /\ result.items = <<<<"A">>, <<"B">>>>

(***************************************************************************)
(* src/business_analyzer.py: confirm and main (SpecAnalyzer).  The folder  *)
(* is the working directory, its file names are sequences of characters.   *)
(* A step is the run of main up to its next prompt or file operation.      *)
(***************************************************************************)
\* confirm on one line that input() returns: TRUE, FALSE, or "again" when
\* the loop prompts again
confirm_line(line, default) ==
    LET stripped == strip(line)
        ans == [i \in 1..Len(stripped) |-> LowerChar(stripped[i])]
    IN  IF ans = <<>> THEN [again |-> FALSE, value |-> default]
        ELSE IF ans \in {<<"y">>, <<"y", "e", "s">>} THEN [again |-> FALSE, value |-> TRUE]
        ELSE IF ans \in {<<"n">>, <<"n", "o">>} THEN [again |-> FALSE, value |-> FALSE]
        ELSE [again |-> TRUE, value |-> default]

ConfirmAnswers ==
    {<<>>, <<"y">>, <<"Y">>, <<"y", "e", "s">>, <<"n">>, <<"N", "O">>, <<" ", "n">>, <<"a">>}

\* the business names typed (prompt_nonempty returns them stripped and not
\* empty)
BusinessNames == {AcmeCorp, <<"A">>, <<"A", " ", "1">>, <<"!">>}

JsonSuffix == <<".", "j", "s", "o", "n">>
ReportSuffix == <<"_", "r", "e", "p", "o", "r", "t", ".", "t", "x", "t">>

\* path.open("w") and the write into it: the file holds the text, or
\* OSError was raised by open (no file is made) or by the write (the file is
\* left part-written)
Outcomes == {"written", "open failed", "write failed"}

file_write(fs, name, content, outcome) ==
    LET entry == [name |-> name,
                  content |-> IF outcome = "written" THEN content ELSE Truncated]
    IN  IF outcome = "open failed" THEN fs
        ELSE IF name \in Names(fs)
        THEN [i \in 1..Len(fs) |-> IF fs[i].name = name THEN entry ELSE fs[i]]
        ELSE Append(fs, entry)

\* prompt_challenges(max_items=3)
MainMaxItems == 3

\* main up to the confirmation prompt: the five prompts, the sanitized base
\* name and the summary; n is the number of challenges entered
MainPrompts ==
    /\ result = NoResult
    /\ \E name \in BusinessNames : \E n \in 0..MainMaxItems :
          result' = [op |-> "main", pc |-> "confirm", business_name |-> name,
                     base |-> sanitize_filename(name), challenges |-> n,
                     confirmed |-> FALSE]
    /\ UNCHANGED folder

\* a required prompt meets the end of the input: sys.exit(1)
MainPromptsEOF ==
    /\ result = NoResult
    /\ result' = [op |-> "main", pc |-> "exited", business_name |-> <<>>,
                  base |-> <<>>, challenges |-> 0, confirmed |-> FALSE]
    /\ UNCHANGED folder

\* the answer to "Save this information and generate report?" (default
\* True); input() returns a line or raises EOFError
MainConfirm ==
    /\ result.op = "main" /\ result.pc = "confirm"
    /\ \E answered \in BOOLEAN : \E line \in ConfirmAnswers :
          LET c == IF answered THEN confirm_line(line, TRUE)
                   ELSE [again |-> FALSE, value |-> TRUE]
          IN  result' = IF c.again THEN result
                        ELSE IF c.value
                        THEN [result EXCEPT !.pc = "save_json", !.confirmed = TRUE]
                        ELSE [result EXCEPT !.pc = "returned"]
    /\ UNCHANGED folder

\* the JSON file is written; OSError ends the process
MainSaveJson ==
    /\ result.op = "main" /\ result.pc = "save_json"
    /\ \E outcome \in Outcomes :
          /\ folder' = file_write(folder, result.base \o JsonSuffix,
                                  [kind |-> "data", challenges |-> result.challenges],
                                  outcome)
          /\ result' = [result EXCEPT !.pc = IF outcome = "written"
                                             THEN "save_report" ELSE "exited"]

\* faulty variant: no report is written when no challenge was entered
MainSaveReport_SkipEmpty ==
    /\ result.op = "main" /\ result.pc = "save_report"
    /\ \E outcome \in Outcomes :
          /\ folder' = IF result.challenges = 0 THEN folder
                       ELSE file_write(folder, result.base \o ReportSuffix,
                                       [kind |-> "report", challenges |-> result.challenges],
                                       outcome)
          /\ result' = [result EXCEPT !.pc = IF outcome = "written"
                                             THEN "returned" ELSE "exited"]

\* the text report is written; OSError ends the process
MainSaveReport ==
    /\ result.op = "main" /\ result.pc = "save_report"
    /\ \E outcome \in Outcomes :
          /\ folder' = file_write(folder, result.base \o ReportSuffix,
                                  [kind |-> "report", challenges |-> result.challenges],
                                  outcome)
          /\ result' = [result EXCEPT !.pc = IF outcome = "written"
                                             THEN "returned" ELSE "exited"]

NextAnalyzer ==
    \/ MainPrompts
    \/ MainPromptsEOF
    \/ MainConfirm
    \/ MainSaveJson
    \/ MainSaveReport

SpecAnalyzer == Init /\ [][NextAnalyzer]_vars

\* the file of that name is in the working directory, written in full
Exists(name) ==
    \E i \in 1..Len(folder) : folder[i].name = name /\ folder[i].content # Truncated

\* C22: main writes files only after the confirmation: when the user has
\* confirmed and main returns, <sanitized name>.json and
\* <sanitized name>_report.txt both exist, for 0 to 3 challenges entered;
\* when the user declines, neither file is written.
C22_FilesOnlyAfterConfirm ==
    result.op = "main" =>
        /\ ~result.confirmed => folder = <<>>
        /\ (result.pc = "returned" /\ ~result.confirmed) => folder = <<>>
        /\ (result.pc = "returned" /\ result.confirmed) =>
              /\ Exists(result.base \o JsonSuffix)
              /\ Exists(result.base \o ReportSuffix)
        /\ result.business_name = AcmeCorp /\ result.pc = "returned" /\ result.confirmed =>
              Exists(<<"A", "c", "m", "e", "_", "C", "o", "r", "p", ".", "j", "s", "o", "n">>)

\* main has returned after a confirmation with no challenge entered, and the
\* two files are there
C22_Witness ==
    /\ result.op = "main"
    /\ result.pc = "returned"
    /\ result.confirmed
    /\ result.challenges = 0
    /\ Len(folder) = 2
    /\ Exists(result.base \o ReportSuffix)

(***************************************************************************)
(* src/consulting/clients.py: the in-memory client store (SpecStore).  The *)
(* folder is the store: its entries, in insertion order, hold the key as   *)
(* name and the Client as content.  Names are sequences of characters.     *)
(***************************************************************************)
\* the position of a key in the store, 0 when it is no key
KeyIndex(store, key) ==
    IF \E i \in 1..Len(store) : store[i].name = key
    THEN CHOOSE i \in 1..Len(store) : store[i].name = key
    ELSE 0

\* faulty variant: a client whose name is a key already takes the place of
\* the entry
add_client_Replace(store, client) ==
    LET key == strip(client.name)
        at == KeyIndex(store, key)
    IN  IF key = <<>> THEN [raised |-> "ValueError", store |-> store]
        ELSE IF at # 0
        THEN [raised |-> "none", store |-> [store EXCEPT ![at].content = client]]
        ELSE [raised |-> "none",
              store |-> Append(store, [name |-> key, content |-> client])]

\* add_client
add_client(store, client) ==
    LET key == strip(client.name)
    IN  IF key = <<>> THEN [raised |-> "ValueError", store |-> store]
        ELSE IF KeyIndex(store, key) # 0 THEN [raised |-> "ValueError", store |-> store]
        ELSE [raised |-> "none",
              store |-> Append(store, [name |-> key, content |-> client])]

\* update_client_status
update_client_status(store, name, status) ==
    LET key == strip(name)
        at == KeyIndex(store, key)
    IN  IF at = 0 THEN [raised |-> "KeyError", store |-> store]
        ELSE [raised |-> "none", store |-> [store EXCEPT ![at].content.status = status]]

\* the client names given: empty, blank, and two names with and without
\* whitespace around them
ClientNames == {<<>>, <<" ">>, <<"A">>, <<" ", "A">>, <<"B">>, <<"B", " ">>}

ClientStatuses == {"prospect", "active"}

AddClient ==
    \E name \in ClientNames : \E status \in ClientStatuses :
        LET client == [name |-> name, status |-> status]
            r == add_client(folder, client)
        IN  /\ folder' = r.store
            /\ result' = [op |-> "add_client", client |-> client, raised |-> r.raised]

UpdateClientStatus ==
    \E name \in ClientNames : \E status \in ClientStatuses :
        LET r == update_client_status(folder, name, status)
        IN  /\ folder' = r.store
            /\ result' = [op |-> "update_client_status", name |-> name,
                          status |-> status, raised |-> r.raised]

NextStore ==
    \/ AddClient
    \/ UpdateClientStatus

SpecStore == Init /\ [][NextStore]_vars

\* C23: add_client never replaces an entry of the store: for a client whose
\* stripped name is empty or is a key already it raises ValueError and
\* leaves the store exactly as it was; any other add puts exactly one new
\* entry, under the stripped name, and leaves every other entry unchanged.
C23_AddNeverReplaces ==
    [][result'.op = "add_client" =>
          LET key == Trimmed(result'.client.name)
          IN  IF key = <<>> \/ \E i \in 1..Len(folder) : folder[i].name = key
              THEN /\ result'.raised = "ValueError"
                   /\ folder' = folder
              ELSE /\ result'.raised = "none"
                   /\ Len(folder') = Len(folder) + 1
                   /\ \A i \in 1..Len(folder) : folder'[i] = folder[i]
                   /\ folder'[Len(folder') ] = [name |-> key, content |-> result'.client]]_vars

\* an add under a name that strips to a key of the store was refused, and
\* the entry of that key is the one of another status
C23_Witness ==
    /\ result.op = "add_client"
    /\ result.raised = "ValueError"
    /\ result.client = [name |-> <<" ", "A">>, status |-> "active"]
    /\ Len(folder) = 2
    /\ folder[2] = [name |-> <<"A">>, content |-> [name |-> <<"A">>, status |-> "prospect"]]

(***************************************************************************)
(* Canonical fields of one raw record (SpecCanonical): what                *)
(* clients_summary, ClientRecord and report_generator.build_context make   *)
(* of the employee keys, the challenge keys and the name keys of a         *)
(* document.                                                               *)
(***************************************************************************)
\* a or b
Or(a, b) == IF Truthy(a) THEN a ELSE b

\* build_context: employees, from data.get("employees") or
\* data.get("employees_count") or data.get("num_employees") or 0, through
\* int(); TypeError and ValueError give 0
build_context_employees(d) ==
    LET v == Or(Get(d, "employees"),
                Or(Get(d, "employees_count"), Or(Get(d, "num_employees"), Num(0))))
    IN  IF ToFloat(v).ok THEN ToFloat(v).f ELSE 0

\* the keys that make a document a client record
ClientKeys == [name |-> Str("Ann"), business_name |-> Str("Acme Corp")]

\* the employee count of a client record with these employee keys: as
\* extract_employees gives it, as it enters the average of summarize over
\* the record alone, and as build_context gives it
ResolveEmployees ==
    /\ \E d \in ExtractDocs :
          LET doc == Merged(ClientKeys, d)
          IN  result' = [op |-> "employees", data |-> doc,
                         value |-> extract_employees(doc),
                         summary |-> summarize(<<Json(Dict(doc))>>).avg,
                         context |-> build_context_employees(doc)]
    /\ UNCHANGED folder

\* the keys of the list, in its order, that the document has with a value
\* other than null and the empty string
FilledKeys(d, keys) ==
    SelectSeq(keys, LAMBDA k : k \in DOMAIN d /\ d[k] # Null /\ d[k] # Str(""))

\* C24: the employee count of a raw record is the value of the first of
\* employees_count, employees, num_employees that is present and neither
\* null nor empty: an earlier key that is null or empty does not block a
\* later one, and a record with num_employees alone has an employee count
\* that enters the average.
C24_FirstFilledEmployeeKey ==
    result.op = "employees" =>
        LET filled == FilledKeys(result.data,
                                 <<"employees_count", "employees", "num_employees">>)
        IN  IF filled = <<>>
            THEN ~result.value.ok /\ ~result.summary.some
            ELSE /\ result.value = [ok |-> TRUE, f |-> result.data[Head(filled)].n]
                 /\ result.summary = [some |-> TRUE, n |-> 1,
                                      sum |-> result.data[Head(filled)].n]
                 /\ result.context = result.data[Head(filled)].n

\* build_context: challenges_raw.  The conditional expression binds last:
\* (challenges or main_challenges or [main_challenge]) if main_challenge
\* else []
build_context_challenges_raw(d) ==
    IF Truthy(Get(d, "main_challenge"))
    THEN Or(Get(d, "challenges"),
            Or(Get(d, "main_challenges"), List(<<Get(d, "main_challenge")>>)))
    ELSE List(<<>>)

\* build_context: main_challenge, the first entry of a list that is not
\* empty, or the string itself
build_context_main_challenge(raw) ==
    IF raw.t = "list" /\ raw.l # <<>> THEN raw.l[1]
    ELSE IF raw.t = "str" THEN raw
    ELSE Str("")

\* render_analysis: the challenges of the report, the first of which is
\* named the primary challenge
render_challenges(raw, main_challenge) ==
    LET listed == IF raw.t = "list" THEN SelectSeq(raw.l, Truthy)
                  ELSE IF raw.t = "str" /\ Strip(raw.s) # "" THEN <<Str(Strip(raw.s))>>
                  ELSE <<>>
    IN  IF listed = <<>> /\ Truthy(main_challenge) THEN <<main_challenge>> ELSE listed

\* the documents with their challenges in every shape: a main_challenge
\* that is missing, empty or set, and lists under challenges and
\* main_challenges that are missing, empty or filled
ChallengeDocs ==
    LET choices == [main_challenge : {Missing, Str(""), Str("Cash")},
                    challenges : {Missing, List(<<>>), List(<<Str("Hiring"), Str("")>>)},
                    main_challenges : {Missing, List(<<>>), List(<<Str("Growth")>>)}]
    IN  {[k \in {x \in DOMAIN a : a[x] # Missing} |-> a[k]] : a \in choices}

ResolveChallenges ==
    /\ \E d \in ChallengeDocs :
          LET doc == Merged(ClientKeys, d)
              raw == build_context_challenges_raw(doc)
          IN  result' = [op |-> "challenges", data |-> doc,
                         value |-> extract_challenges(doc),
                         summary |-> summarize(<<Json(Dict(doc))>>).challenges,
                         raw |-> raw,
                         main |-> build_context_main_challenge(raw),
                         report |-> render_challenges(raw, build_context_main_challenge(raw))]
    /\ UNCHANGED folder

\* ClientRecord.business_name
record_business_name(d) == Or(Get(d, "business_name"), Get(d, "name"))

\* build_context: business_name
build_context_business_name(d) ==
    Or(Get(d, "business_name"), Or(Get(d, "name"), Or(Get(d, "business"), Str("Client"))))

NameDocs ==
    LET choices == [business_name : {Missing, Null, Str(""), Str("Acme Corp")},
                    business : {Missing, Str("Biz")},
                    name : {Missing, Str("Ann")}]
    IN  {[k \in {x \in DOMAIN a : a[x] # Missing} |-> a[k]] : a \in choices}

ResolveBusinessName ==
    /\ \E d \in NameDocs :
          result' = [op |-> "business_name", data |-> d,
                     value |-> record_business_name(d),
                     context |-> build_context_business_name(d)]
    /\ UNCHANGED folder

NextCanonical ==
    \/ ResolveEmployees
    \/ ResolveChallenges
    \/ ResolveBusinessName

SpecCanonical == Init /\ [][NextCanonical]_vars

\* the strings of a list value that are not empty, in its order
FilledStrings(v) ==
    IF v.t = "list"
    THEN LET kept == SelectSeq(v.l, LAMBDA c : c.t = "str" /\ c.s # "")
         IN  [i \in 1..Len(kept) |-> kept[i].s]
    ELSE <<>>

\* C25: the challenges of a record are its main_challenge followed by the
\* entries of its challenges list or, when it has none, of its
\* main_challenges list, the strings that are not empty only and in their
\* order; a record that keeps its challenges under main_challenges brings
\* them into the challenges of the summary.
C25_ChallengesFromEveryShape ==
    result.op = "challenges" =>
        LET d == result.data
            single == FilledStrings(List(<<Get(d, "main_challenge")>>))
            listed == IF Has(d, "challenges") THEN FilledStrings(d["challenges"])
                      ELSE FilledStrings(Get(d, "main_challenges"))
        IN  /\ result.value = single \o listed
            /\ result.summary = single \o listed

\* the list that build_context is to resolve the challenges to
ExpectedChallenges(d) ==
    IF Get(d, "challenges").t = "list" /\ Get(d, "challenges").l # <<>>
    THEN Get(d, "challenges").l
    ELSE IF Get(d, "main_challenges").t = "list" /\ Get(d, "main_challenges").l # <<>>
    THEN Get(d, "main_challenges").l
    ELSE IF Truthy(Get(d, "main_challenge")) THEN <<Get(d, "main_challenge")>>
    ELSE <<>>

\* C27: build_context takes the challenges from the shape that is there:
\* the challenges list when it is not empty, else the main_challenges list
\* when it is not empty, else the one main_challenge when it is set, else
\* nothing; a record with one of the lists filled and no main_challenge
\* has challenges, the first of which is the main challenge of the report.
C27_ContextChallenges ==
    result.op = "challenges" =>
        LET expected == ExpectedChallenges(result.data)
        IN  /\ result.raw = List(expected)
            /\ expected # <<>> =>
                  /\ result.main = expected[1]
                  /\ result.report # <<>>
                  /\ result.report[1] = expected[1]

\* C26: the business name of a raw record is the first of business_name,
\* business and name that has a value: business is used when business_name
\* is absent or empty, and name only when neither of the two has a value.
C26_BusinessNamePriority ==
    result.op = "business_name" =>
        LET filled == FilledKeys(result.data, <<"business_name", "business", "name">>)
        IN  filled # <<>> =>
               /\ result.value = result.data[Head(filled)]
               /\ result.context = result.data[Head(filled)]

\* ---------------------------------------------------------------------------
\* Saving a new client: clients_menu.add_new_client and client_intake.main.
\* folder is the working directory: name is the file name as a sequence of
\* characters, content the record written into it.
\* ---------------------------------------------------------------------------

MaxSaves == 3

ClientWord == <<"c", "l", "i", "e", "n", "t">>

\* clients_menu.sanitize_filename; client_intake.sanitize_filename is the same
\* function
clients_menu_sanitize_filename(name) ==
    LET stripped == IF strip(name) = <<>> THEN ClientWord ELSE strip(name)
        cleaned  == sub_disallowed(sub_spaces(stripped))
    IN  IF cleaned = <<>> THEN ClientWord ELSE cleaned

\* f"{business_name}_{name}"
PairText(business_name, name) == business_name \o <<"_">> \o name

\* Path(f"{base}.json") of save_client and of client_intake.main
save_path(business_name, name) ==
    clients_menu_sanitize_filename(PairText(business_name, name)) \o JsonSuffix

\* what prompt() can return for a required field: stripped and not empty
SaveNames ==
    {<<"A">>, <<"A", "!">>, <<"A", "_", "A">>, <<"B", " ", "1">>}

\* the record written for a client
ClientDocument(business_name, name) ==
    [kind |-> "client", business_name |-> business_name, name |-> name]

\* the clients whose latest save wrote their record in full
Saved(added, business_name, name, outcome) ==
    IF outcome = "written" THEN added \cup {<<business_name, name>>}
    ELSE IF outcome = "write failed" THEN added \ {<<business_name, name>>}
    ELSE added

SavesSoFar == IF "saves" \in DOMAIN result THEN result.saves ELSE 0
AddedSoFar == IF "added" \in DOMAIN result THEN result.added ELSE {}

\* clients_menu.add_new_client: OSError is reported and the menu goes on
AddNewClient ==
    /\ SavesSoFar < MaxSaves
    /\ \E business_name \in SaveNames, name \in SaveNames, outcome \in Outcomes :
          /\ folder' = file_write(folder, save_path(business_name, name),
                                  ClientDocument(business_name, name), outcome)
          /\ result' = [op |-> "add_new_client",
                        business_name |-> business_name, name |-> name,
                        out |-> save_path(business_name, name),
                        outcome |-> outcome,
                        status |-> "returned",
                        added |-> Saved(AddedSoFar, business_name, name, outcome),
                        saves |-> SavesSoFar + 1]

\* client_intake.main: OSError ends the process with status 1
ClientIntakeMain ==
    /\ SavesSoFar < MaxSaves
    /\ \E business_name \in SaveNames, name \in SaveNames, outcome \in Outcomes :
          /\ folder' = file_write(folder, save_path(business_name, name),
                                  ClientDocument(business_name, name), outcome)
          /\ result' = [op |-> "client_intake",
                        business_name |-> business_name, name |-> name,
                        out |-> save_path(business_name, name),
                        outcome |-> outcome,
                        status |-> IF outcome = "written" THEN "returned" ELSE "exit 1",
                        added |-> Saved(AddedSoFar, business_name, name, outcome),
                        saves |-> SavesSoFar + 1]

NextSave == AddNewClient \/ ClientIntakeMain

SpecSave == Init /\ [][NextSave]_vars

\* the files of the working directory that hold a whole record
Documents == {i \in 1..Len(folder) : folder[i].content # Truncated}

\* C28: saving a client never destroys another client's record: clients whose
\* (business_name, name) pairs differ are written to different files, and
\* after any sequence of saves the directory holds one document per distinct
\* client added, each client's own
C28_SaveKeepsOtherClients ==
    "added" \in DOMAIN result =>
        /\ \A p \in result.added, q \in result.added :
              p # q => save_path(p[1], p[2]) # save_path(q[1], q[2])
        /\ \A p \in result.added :
              \E i \in Documents :
                 /\ folder[i].name = save_path(p[1], p[2])
                 /\ folder[i].content = ClientDocument(p[1], p[2])
        /\ Cardinality(Documents) = Cardinality(result.added)

\* ---------------------------------------------------------------------------
\* The file names the two intake producers write, read back by
\* ClientRecord.date.
\* ---------------------------------------------------------------------------

MaxBusinessLen == 2

\* [a-z0-9] on the characters of the model
IsSlugAlnum(c) == c \in LowerLetters \/ IsDigit(c)

\* value.strip().lower()
strip_lower(value) == [i \in 1..Len(strip(value)) |-> LowerChar(strip(value)[i])]

RECURSIVE sub_spaces_dash(_)
\* re.sub(r"\s+", "-", value)
sub_spaces_dash(value) ==
    IF value = <<>> THEN <<>>
    ELSE IF ~IsSpace(Head(value)) THEN <<Head(value)>> \o sub_spaces_dash(Tail(value))
    ELSE IF Len(value) > 1 /\ IsSpace(value[2]) THEN sub_spaces_dash(Tail(value))
    ELSE <<"-">> \o sub_spaces_dash(Tail(value))

IsSlugChar(c) == IsSlugAlnum(c) \/ c \in {"-", "_"}

\* ClientIntake._slugify of src/src/intake.py
intake_slugify(value) ==
    LET cleaned == SelectSeq(sub_spaces_dash(strip_lower(value)), IsSlugChar)
    IN  IF cleaned = <<>> THEN ClientWord ELSE cleaned

RECURSIVE sub_non_alnum(_)
\* re.sub(r"[^a-z0-9]+", "-", name)
sub_non_alnum(name) ==
    IF name = <<>> THEN <<>>
    ELSE IF IsSlugAlnum(Head(name)) THEN <<Head(name)>> \o sub_non_alnum(Tail(name))
    ELSE IF Len(name) > 1 /\ ~IsSlugAlnum(name[2]) THEN sub_non_alnum(Tail(name))
    ELSE <<"-">> \o sub_non_alnum(Tail(name))

\* cleaned.strip("-")
strip_dashes(cleaned) ==
    LET solid == {i \in 1..Len(cleaned) : cleaned[i] # "-"}
    IN  IF solid = {} THEN <<>>
        ELSE SubSeq(cleaned, CHOOSE i \in solid : \A j \in solid : i <= j,
                             CHOOSE i \in solid : \A j \in solid : j <= i)

\* ClientIntake._slugify of the business-intake-tool
tool_slugify(name) ==
    LET cleaned == strip_dashes(sub_non_alnum(strip_lower(name)))
    IN  IF cleaned = <<>> THEN ClientWord ELSE cleaned

\* the four digits of a year, the two digits of a month or a day
FourDigits(y) ==
    <<Digits[(y \div 1000) + 1], Digits[((y \div 100) % 10) + 1],
      Digits[((y \div 10) % 10) + 1], Digits[(y % 10) + 1]>>
TwoDigits(n) == <<Digits[(n \div 10) + 1], Digits[(n % 10) + 1]>>

\* strftime("%Y-%m-%d") of the day YYYYMMDD
strftime_dashed(day) ==
    FourDigits(day \div 10000) \o <<"-">> \o TwoDigits((day \div 100) % 100)
        \o <<"-">> \o TwoDigits(day % 100)

\* strftime("%Y%m%d") of the day YYYYMMDD
strftime_compact(day) ==
    FourDigits(day \div 10000) \o TwoDigits((day \div 100) % 100) \o TwoDigits(day % 100)

\* the file name of ClientIntake.save of src/src/intake.py
intake_filename(business_name, day) ==
    intake_slugify(business_name) \o <<"-">> \o strftime_dashed(day) \o JsonSuffix

\* the file name of ClientIntake._build_path of the business-intake-tool
tool_filename(business_name, day) ==
    tool_slugify(business_name) \o <<"-">> \o strftime_compact(day) \o JsonSuffix

\* the characters business names are made of
BusinessChars == {"J", "o", "1", " ", "-", "!"}

BusinessInputs == UNION {[1..n -> BusinessChars] : n \in 1..MaxBusinessLen}

\* the days datetime.now() gives
SaveDays == {20251116, 20240229, 20261106}

\* ClientIntake.save of src/src/intake.py, and the date a ClientRecord of the
\* file has
IntakeSaveFile ==
    /\ \E business_name \in BusinessInputs, day \in SaveDays :
          LET filename == intake_filename(business_name, day)
          IN  result' = [op |-> "save", producer |-> "src/intake",
                         business_name |-> business_name, day |-> day,
                         filename |-> filename,
                         date |-> ClientRecord_date(filename)]
    /\ UNCHANGED folder

\* ClientIntake._save_record of the business-intake-tool, and the date a
\* ClientRecord of the file has
ToolSaveFile ==
    /\ \E business_name \in BusinessInputs, day \in SaveDays :
          LET filename == tool_filename(business_name, day)
          IN  result' = [op |-> "save", producer |-> "business-intake-tool",
                         business_name |-> business_name, day |-> day,
                         filename |-> filename,
                         date |-> ClientRecord_date(filename)]
    /\ UNCHANGED folder

NextRoundTrip == IntakeSaveFile \/ ToolSaveFile

SpecRoundTrip == Init /\ [][NextRoundTrip]_vars

\* C29: for every business name and every save day, ClientRecord.date of the
\* file name an intake producer writes is that save day, for both producers
C29_FilenameDateRoundTrip ==
    result.op = "save" => result.date = result.day

\* ---------------------------------------------------------------------------
\* The summary of clients_menu when clients_summary cannot be imported:
\* generate_summary and export_summary_markdown compute it from the rows of
\* view_all_clients.
\* ---------------------------------------------------------------------------

\* str(v) of a value of a row
str_text(v) ==
    CASE v.t = "str" -> v.s
      [] v.t = "num" /\ v.n = 7 -> "7"
      [] v.t = "num" /\ v.n = 10 -> "10"
      [] v.t = "num" /\ v.n = 20 -> "20"
      [] v.t = "num" /\ v.n = 40 -> "40"
      [] v.t = "num" /\ v.n = -5 -> "-5"
      [] v.t = "null" -> "None"
      [] OTHER -> "[...]"

\* str(r.get(key) or "").strip()
row_text(v) == IF Truthy(v) THEN Strip(str_text(v)) ELSE ""

\* the except branch of generate_summary, and of export_summary_markdown,
\* on the files of the folder in glob order; the challenges are deduplicated
\* when they are printed
fallback_summary(fs) ==
    LET rows == view_all_clients(fs)
        industries ==
            LET F[i \in 0..Len(rows)] ==
                    IF i = 0 THEN <<>>
                    ELSE IF row_text(rows[i].industry) # ""
                    THEN Append(F[i - 1], row_text(rows[i].industry))
                    ELSE F[i - 1]
            IN  F[Len(rows)]
        emp_values ==
            LET F[i \in 0..Len(rows)] ==
                    IF i = 0 THEN <<>>
                    ELSE LET e == rows[i].employees
                         IN  IF e # Null /\ e # Str("") /\ ToFloat(e).ok
                             THEN Append(F[i - 1], ToFloat(e).f)
                             ELSE F[i - 1]
            IN  F[Len(rows)]
        challenges ==
            LET F[i \in 0..Len(rows)] ==
                    IF i = 0 THEN <<>>
                    ELSE IF row_text(rows[i].main_challenge) # ""
                    THEN Append(F[i - 1], row_text(rows[i].main_challenge))
                    ELSE F[i - 1]
            IN  F[Len(rows)]
    IN  [total |-> Len(rows),
         industry |-> IF industries # <<>> THEN <<most_common(industries)>> ELSE <<>>,
         avg |-> IF emp_values # <<>>
                 THEN [some |-> TRUE, sum |-> SumSeq(emp_values), n |-> Len(emp_values)]
                 ELSE NoAverage,
         challenges |-> Dedup(challenges)]

\* a client with no employees
DocZero ==
    [name |-> Str("Zed"), business_name |-> Str("Zero"), industry |-> Str("Retail"),
     employees_count |-> Num(0), main_challenge |-> Str("Cash")]

MenuContents == SummaryContents \cup {Json(Dict(DocZero))}

\* one more file is left in the folder
MenuSave ==
    /\ Len(folder) < MaxDbFiles
    /\ \E c \in MenuContents :
          folder' = Append(folder, [name |-> FileNames[Len(folder) + 1], content |-> c])
    /\ result' = [op |-> "save"]

\* generate_summary(Path.cwd()): the report of clients_summary when the
\* module can be imported, the fallback summary when it cannot
GenerateSummary ==
    /\ \E importable \in BOOLEAN :
          result' = [op |-> "generate_summary", importable |-> importable,
                     value |-> IF importable THEN summarize(Contents(folder))
                               ELSE fallback_summary(folder)]
    /\ UNCHANGED folder

\* export_summary_markdown(Path.cwd()): the same figures, written as markdown
ExportSummaryMarkdown ==
    /\ \E importable \in BOOLEAN :
          result' = [op |-> "export_summary_markdown", importable |-> importable,
                     value |-> IF importable THEN summarize(Contents(folder))
                               ELSE fallback_summary(folder)]
    /\ UNCHANGED folder

NextMenuSummary == MenuSave \/ GenerateSummary \/ ExportSummaryMarkdown

SpecMenuSummary == Init /\ [][NextMenuSummary]_vars

\* C30: the fallback summary of clients_menu reports what
\* clients_summary.summarize reports on the same folder: the same total, the
\* same most common industry, the same average employee count (records with
\* employee count 0 included) and the same deduplicated challenge list
C30_FallbackEqualsSummarize ==
    result.op \in {"generate_summary", "export_summary_markdown"} =>
        LET expected == summarize(Contents(folder))
        IN  /\ result.value.total = expected.total
            /\ result.value.industry = expected.industry
            /\ result.value.avg = expected.avg
            /\ result.value.challenges = expected.challenges

====
